---- MODULE Spec2Model ----
(***************************************************************************)
(* Model of the minigo inference dispatch layer.                           *)
(*                                                                         *)
(* BatchingService (src/unnamed/part_000) coalesces the requests of many   *)
(* client threads into batches for one DualNet engine.  Every client       *)
(* thread is a process of the model; the service's fields are the shared   *)
(* state, guarded by mutex_; the locals of MaybeRunBatches / RunBatch live *)
(* in the frame of the thread that executes them.  The engine is the       *)
(* TfDualNet worker of src/unnamed/part_002, which owns a fixed input      *)
(* tensor of FLAGS_batch_size rows.                                        *)
(***************************************************************************)
EXTENDS Integers, Sequences, FiniteSets, TLC

\* Number of client threads (one BatchingDualNet handle each).
NumClients == 2
\* Total number of RunMany calls made by all clients together.
MaxRequests == 3
\* Largest value given to the --batch_size flag.
MaxBatchSize == 2

Clients == 1..NumClients

NoThread == 0
NoRequest == 0
NoResult == [policies |-> <<>>, values |-> <<>>, model |-> "unset"]

VARIABLES
  FLAGS_batch_size,  \* the --batch_size flag, fixed when the process starts
  num_clients_,      \* BatchingService::num_clients_
  inference_queue_,  \* BatchingService::inference_queue_
  queue_counter_,    \* BatchingService::queue_counter_
  run_counter_,      \* BatchingService::run_counter_
  num_runs_,         \* BatchingService::num_runs_
  mutex_,            \* BatchingService::mutex_: the thread holding it
  pc,                \* position of every client thread
  frame,             \* locals of every client thread
  promise,           \* shared state of every std::promise / std::future
  inputs_,           \* TfWorker::inputs_: the engine's input tensor
  aborted,           \* an MG_CHECK failed: the process is gone
  next_id,           \* number of requests submitted so far (history)
  submitted,         \* request -> features.size() it was submitted with
  batch_no,          \* number of batches formed so far (history)
  batch_of,          \* request -> number of the batch that took it (history)
  returned,          \* request -> Result RunMany returned (history)
  front_on_empty,    \* RunBatch read front() of an empty queue (history)
  weak,              \* the clients that are a WeakBatchingClient
  engine_inputs,     \* feature -> number of engine calls it was passed to
  history,           \* SetFeatures: the position history it is called with
  to_play,           \* SetFeatures: the colour to play
  board_features,    \* SetFeatures: the caller's BoardFeatures array
  encoder_pc,        \* position of the thread calling SetFeatures
  num_calls,         \* number of SetFeatures calls made so far (history)
  first_features,    \* the array as the first call left it (history)
  running_,          \* TfDualNet::running_
  queue_,            \* TfDualNet::queue_: the work items waiting
  worker_pc,         \* position of every worker thread
  worker_item,       \* the InferenceData a worker thread popped
  fulfilled,         \* the work items whose promise has its value
  caller_pc,         \* position of the caller of TfDualNet::RunMany
  engine_pc,         \* position of the thread that destroys the engine
  worker_inputs_,    \* TfWorker::inputs_ of every worker thread
  pool_promise,      \* shared state of the promise of every work item
  pool_features,     \* work item -> features its RunMany was called with
  pool_returned,     \* work item -> Result its RunMany returned (history)
  pop_count,         \* work item -> number of times it was popped (history)
  late_pops,         \* worker -> pops that ended after running_ = false
  batch_id_,         \* RemoteDualNet::batch_id_
  pending_map_,      \* RemoteDualNet::pending_map_
  handler_pc,        \* position of every thread serving a GetFeatures call
  handler_frame,     \* locals of every thread serving a GetFeatures call
  responses,         \* the GetFeatures responses built so far (history)
  cancelled,         \* the connection of the remote worker is cancelled
  remote_aborted,    \* an MG_CHECK of RemoteDualNet failed
  put_log,           \* the PutOutputs calls served so far (history)
  client_counters_,  \* BatchingService::client_counters_
  call_of,           \* request -> number of its RunMany call (history)
  visited,           \* TransposeBoardFeatures: the bitset visited
  transpose_i,       \* TransposeBoardFeatures: the index i
  transpose_column,  \* TransposeBoardFeatures: the loop variable column
  transpose_row,     \* TransposeBoardFeatures: the loop variable row
  transpose_pc,      \* position of the thread in TransposeBoardFeatures
  original,          \* the features as they were before the call (history)
  moved              \* index -> number of times data[index] was written

vars == <<FLAGS_batch_size, num_clients_, inference_queue_, queue_counter_,
          run_counter_, num_runs_, mutex_, pc, frame, promise, inputs_,
          aborted, next_id, submitted, batch_no, batch_of, returned,
          front_on_empty, weak, engine_inputs, history, to_play,
          board_features, encoder_pc, num_calls, first_features, running_,
          queue_, worker_pc, worker_item, fulfilled, caller_pc, engine_pc,
          worker_inputs_, pool_promise, pool_features, pool_returned,
          pop_count, late_pops, batch_id_, pending_map_, handler_pc,
          handler_frame, responses, cancelled, remote_aborted, put_log,
          client_counters_, call_of, visited, transpose_i, transpose_column,
          transpose_row, transpose_pc, original, moved>>

svc == <<FLAGS_batch_size, num_clients_, inference_queue_, queue_counter_,
         run_counter_, num_runs_>>
hist == <<next_id, submitted, batch_no, batch_of, returned, front_on_empty>>
encoder == <<history, to_play, board_features, encoder_pc, num_calls,
             first_features>>
pool == <<running_, queue_, worker_pc, worker_item, fulfilled, caller_pc,
          engine_pc, worker_inputs_, pool_promise, pool_features,
          pool_returned, pop_count, late_pops>>
remote == <<batch_id_, pending_map_, handler_pc, handler_frame, responses,
            cancelled, remote_aborted, put_log>>
counters == <<client_counters_, call_of>>
transpose == <<visited, transpose_i, transpose_column, transpose_row,
               transpose_pc, original, moved>>
extra == <<remote, counters, transpose>>
others == <<encoder, pool, extra>>
aux == <<weak, engine_inputs, others>>

Requests == 1..MaxRequests

Min(a, b) == IF a < b THEN a ELSE b

RECURSIVE SumSeq(_)
SumSeq(s) == IF s = <<>> THEN 0 ELSE Head(s) + SumSeq(Tail(s))

\* Feature i of request id: the identity of one BoardFeatures array.
Feature(id, i) == <<id, i>>
\* Rows of the input tensor nobody has written yet.
Uninit == <<0, 0>>

\* What the network computes from one row of the input tensor.
Policy(f) == <<"policy", f>>
Value(f) == <<"value", f>>

\* The features vector a client passes to RunMany.
MakeFeatures(id, n) == [i \in 1..n |-> Feature(id, i)]

EmptyFrame ==
  [caller |-> "none", request |-> NoRequest, features |-> <<>>,
   batch |-> <<>>, promises |-> <<>>, feature_counts |-> <<>>,
   result |-> NoResult, policy_it |-> 0, promise_it |-> 0]

\* No thread calls SetFeatures.
EncoderIdle ==
  /\ history = <<>>
  /\ to_play = "kBlack"
  /\ board_features = <<>>
  /\ encoder_pc = "none"
  /\ num_calls = 0
  /\ first_features = <<>>

\* The engine behind the batching service is modelled by EngineRunMany: its
\* worker threads are not modelled apart.
PoolIdle ==
  /\ running_ = TRUE
  /\ queue_ = <<>>
  /\ worker_pc = <<>>
  /\ worker_item = <<>>
  /\ fulfilled = {}
  /\ caller_pc = <<>>
  /\ engine_pc = "none"
  /\ worker_inputs_ = <<>>
  /\ pool_promise = <<>>
  /\ pool_features = <<>>
  /\ pool_returned = <<>>
  /\ pop_count = <<>>
  /\ late_pops = <<>>

\* No RemoteDualNet exists.
RemoteIdle ==
  /\ batch_id_ = 1
  /\ pending_map_ = <<>>
  /\ handler_pc = <<>>
  /\ handler_frame = <<>>
  /\ responses = <<>>
  /\ cancelled = FALSE
  /\ remote_aborted = FALSE
  /\ put_log = {}

\* The service keeps no client_counters_.
CountersIdle ==
  /\ client_counters_ = <<>>
  /\ call_of = <<>>

\* No thread is in TransposeBoardFeatures.
TransposeIdle ==
  /\ visited = {}
  /\ transpose_i = 0
  /\ transpose_column = 0
  /\ transpose_row = 0
  /\ transpose_pc = "none"
  /\ original = <<>>
  /\ moved = <<>>

RestIdle == RemoteIdle /\ CountersIdle /\ TransposeIdle

Init ==
  /\ FLAGS_batch_size \in 1..MaxBatchSize
  /\ num_clients_ = 0
  /\ inference_queue_ = <<>>
  /\ queue_counter_ = 0
  /\ run_counter_ = 0
  /\ num_runs_ = 0
  /\ mutex_ = NoThread
  /\ pc = [c \in Clients |-> "none"]
  /\ frame = [c \in Clients |-> EmptyFrame]
  /\ promise = [r \in Requests |-> [set_count |-> 0, value |-> NoResult]]
  /\ inputs_ = [i \in 1..FLAGS_batch_size |-> Uninit]
  /\ aborted = FALSE
  /\ next_id = 0
  /\ submitted = [r \in Requests |-> 0]
  /\ batch_no = 0
  /\ batch_of = [r \in Requests |-> 0]
  /\ returned = [r \in Requests |-> NoResult]
  /\ front_on_empty = FALSE
  /\ weak = {}
  /\ engine_inputs = <<>>
  /\ EncoderIdle
  /\ PoolIdle
  /\ RestIdle

----------------------------------------------------------------------------
\* BatchingDualNet::BatchingDualNet -> BatchingService::IncrementClientCount.
\* Threads are numbered in the order in which they create their handle.
IncrementClientCount(c) ==
  /\ ~aborted
  /\ pc[c] = "none"
  /\ \A d \in Clients : d < c => pc[d] # "none"
  /\ mutex_ = NoThread
  /\ num_clients_' = num_clients_ + 1
  /\ pc' = [pc EXCEPT ![c] = "idle"]
  /\ UNCHANGED <<aux, FLAGS_batch_size, inference_queue_, queue_counter_,
                 run_counter_, num_runs_, mutex_, frame, promise, inputs_,
                 aborted, hist>>

\* DecrementClientCount without the call of MaybeRunBatches.
DecrementOnly(c) ==
  /\ ~aborted
  /\ pc[c] = "idle"
  /\ mutex_ = NoThread
  /\ num_clients_' = num_clients_ - 1
  /\ pc' = [pc EXCEPT ![c] = "gone"]
  /\ UNCHANGED <<aux, FLAGS_batch_size, inference_queue_, queue_counter_,
                 run_counter_, num_runs_, mutex_, frame, promise, inputs_,
                 aborted, hist>>

\* ~BatchingDualNet -> BatchingService::DecrementClientCount, up to the call
\* of MaybeRunBatches; the lock is kept.
DecrementClientCount(c) ==
  /\ ~aborted
  /\ pc[c] = "idle"
  /\ mutex_ = NoThread
  /\ mutex_' = c
  /\ num_clients_' = num_clients_ - 1
  /\ pc' = [pc EXCEPT ![c] = "maybe_run"]
  /\ frame' = [frame EXCEPT ![c] = [EmptyFrame EXCEPT !.caller = "Decrement"]]
  /\ UNCHANGED <<aux, FLAGS_batch_size, inference_queue_, queue_counter_,
                 run_counter_, num_runs_, promise, inputs_, aborted, hist>>

\* BatchingService::RunMany: MG_CHECK(num_features <= FLAGS_batch_size).
SizeCheck(num_features) == num_features <= FLAGS_batch_size

\* BatchingService::RunMany with a size that fails the MG_CHECK: abort.
RunManyAbort(c, n) ==
  /\ ~aborted
  /\ pc[c] = "idle"
  /\ next_id < MaxRequests
  /\ ~SizeCheck(n)
  /\ aborted' = TRUE
  /\ UNCHANGED <<aux, svc, mutex_, pc, frame, promise, inputs_, hist>>

\* BatchingService::RunMany: the size check, the promise, the lock and
\* queue_counter_ += num_features.
RunManyLock(c, n) ==
  /\ ~aborted
  /\ pc[c] = "idle"
  /\ next_id < MaxRequests
  /\ SizeCheck(n)
  /\ mutex_ = NoThread
  /\ mutex_' = c
  /\ next_id' = next_id + 1
  /\ submitted' = [submitted EXCEPT ![next_id + 1] = n]
  /\ queue_counter_' = queue_counter_ + n
  /\ frame' = [frame EXCEPT ![c] =
                 [EmptyFrame EXCEPT !.caller = "RunMany",
                                    !.request = next_id + 1,
                                    !.features = MakeFeatures(next_id + 1, n)]]
  /\ pc' = [pc EXCEPT ![c] = "push"]
  /\ UNCHANGED <<aux, FLAGS_batch_size, num_clients_, inference_queue_,
                 run_counter_, num_runs_, promise, inputs_, aborted, batch_no,
                 batch_of, returned, front_on_empty>>

\* BatchingService::RunMany: inference_queue_.push, under the lock.
RunManyPush(c) ==
  /\ ~aborted
  /\ pc[c] = "push"
  /\ mutex_ = c
  /\ inference_queue_' =
       Append(inference_queue_,
              [features |-> frame[c].features, promise |-> frame[c].request])
  /\ frame' = [frame EXCEPT ![c].features = <<>>]
  /\ pc' = [pc EXCEPT ![c] = "maybe_run"]
  /\ UNCHANGED <<aux, FLAGS_batch_size, num_clients_, queue_counter_,
                 run_counter_, num_runs_, mutex_, promise, inputs_, aborted,
                 hist>>

----------------------------------------------------------------------------
\* MaybeRunBatches without the std::min against FLAGS_batch_size.
BatchSizeNoMin == queue_counter_ - run_counter_

\* MaybeRunBatches: the value the while condition computes.
BatchSize == Min(queue_counter_ - run_counter_, FLAGS_batch_size)

\* MaybeRunBatches comparing with >= instead of >.
StopRuleGreaterEqual(batch_size) ==
  /\ batch_size < FLAGS_batch_size
  /\ num_clients_ >= Len(inference_queue_)

\* MaybeRunBatches without the census: a short batch always waits.
StopRuleShortBatch(batch_size) == batch_size < FLAGS_batch_size

\* MaybeRunBatches without the stop rule: every wake-up runs what waits.
StopRuleNever(batch_size) == FALSE

\* MaybeRunBatches counting one queued request too many.
StopRuleOffByOne(batch_size) ==
  /\ batch_size < FLAGS_batch_size
  /\ num_clients_ > Len(inference_queue_) + 1

\* MaybeRunBatches stopping whenever a counted client has no request in the
\* queue, whatever the size of the batch.
StopRuleCensusOnly(batch_size) == num_clients_ > Len(inference_queue_)

\* MaybeRunBatches: "Stop if we won't fill a batch yet but more request will
\* come."
StopRule(batch_size) ==
  /\ batch_size < FLAGS_batch_size
  /\ num_clients_ > Len(inference_queue_)

\* RunBatch: the loop that moves requests from the queue into the batch.
\* acc holds the locals features, promises and feature_counts.
RECURSIVE RunBatchLoop(_, _, _)
RunBatchLoop(queue, batch_size, acc) ==
  IF batch_size > 0
  THEN IF queue = <<>>
       THEN [acc EXCEPT !.queue = queue, !.front_on_empty = TRUE]
       ELSE LET inference == Head(queue)
                num_features == Len(inference.features)
            IN IF num_features > batch_size
               THEN [acc EXCEPT !.queue = queue]
               ELSE RunBatchLoop(
                      Tail(queue), batch_size - num_features,
                      [acc EXCEPT
                         !.features = @ \o inference.features,
                         !.promises = Append(@, inference.promise),
                         !.feature_counts = Append(@, num_features),
                         !.popped = @ + num_features])
  ELSE [acc EXCEPT !.queue = queue]

EmptyBatch(queue) ==
  [queue |-> queue, features |-> <<>>, promises |-> <<>>,
   feature_counts |-> <<>>, popped |-> 0, front_on_empty |-> FALSE]

\* RunBatch without "run_counter_ += num_features".
RunBatchPopNoCount(queue, batch_size) ==
  [RunBatchLoop(queue, batch_size, EmptyBatch(queue)) EXCEPT !.popped = 0]

\* RunBatch without "inference_queue_.pop()": every iteration reads the same
\* front element.
RECURSIVE RunBatchLoopNoPop(_, _, _)
RunBatchLoopNoPop(queue, batch_size, acc) ==
  IF batch_size > 0 /\ queue # <<>> /\ Len(Head(queue).features) <= batch_size
  THEN RunBatchLoopNoPop(
         queue, batch_size - Len(Head(queue).features),
         [acc EXCEPT !.features = @ \o Head(queue).features,
                     !.promises = Append(@, Head(queue).promise),
                     !.feature_counts = Append(@, Len(Head(queue).features)),
                     !.popped = @ + Len(Head(queue).features)])
  ELSE acc

RunBatchPopNoPop(queue, batch_size) ==
  RunBatchLoopNoPop(queue, batch_size, EmptyBatch(queue))

Reverse(s) == [i \in 1..Len(s) |-> s[Len(s) + 1 - i]]

\* RunBatch reading inference_queue_.back() instead of front().
RunBatchPopBack(queue, batch_size) ==
  LET b == RunBatchLoop(Reverse(queue), batch_size, EmptyBatch(queue))
  IN [b EXCEPT !.queue = Reverse(b.queue)]

\* RunBatch filling the rest of the batch with the first features of a front
\* request that does not fit.
RunBatchPopSplit(queue, batch_size) ==
  LET b == RunBatchLoop(queue, batch_size, EmptyBatch(queue))
      rest == batch_size - b.popped
  IN IF rest > 0 /\ b.queue # <<>>
     THEN LET inference == Head(b.queue)
          IN [b EXCEPT
                !.queue = <<[inference EXCEPT
                               !.features = SubSeq(@, rest + 1, Len(@))]>>
                          \o Tail(b.queue),
                !.features = @ \o SubSeq(inference.features, 1, rest),
                !.promises = Append(@, inference.promise),
                !.feature_counts = Append(@, rest),
                !.popped = @ + rest]
     ELSE b

\* RunBatch passing over a front request that does not fit and taking the
\* request behind it when that one fits.
RunBatchPopSkip(queue, batch_size) ==
  LET b == RunBatchLoop(queue, batch_size, EmptyBatch(queue))
      room == batch_size - b.popped
  IN IF /\ room > 0
        /\ Len(b.queue) >= 2
        /\ Len(b.queue[2].features) <= room
     THEN [b EXCEPT
             !.queue = <<Head(b.queue)>> \o Tail(Tail(b.queue)),
             !.features = @ \o b.queue[2].features,
             !.promises = Append(@, b.queue[2].promise),
             !.feature_counts = Append(@, Len(b.queue[2].features)),
             !.popped = @ + Len(b.queue[2].features)]
     ELSE b

\* RunBatch copying one feature too few into the batch.
RunBatchPopShortCopy(queue, batch_size) ==
  [RunBatchLoop(queue, batch_size, EmptyBatch(queue)) EXCEPT
     !.features = SubSeq(@, 1, Len(@) - 1)]

RunBatchPop(queue, batch_size) ==
  RunBatchLoop(queue, batch_size, EmptyBatch(queue))

\* MaybeRunBatches leaves its loop and the caller releases the lock:
\* RunMany goes on to future.get(), DecrementClientCount returns.
MaybeRunBatchesReturn(c) ==
  /\ ~aborted
  /\ pc[c] = "maybe_run"
  /\ mutex_ = c
  /\ BatchSize = 0 \/ StopRule(BatchSize)
  /\ mutex_' = NoThread
  /\ pc' = [pc EXCEPT ![c] = IF frame[c].caller = "RunMany"
                              THEN "future_get" ELSE "gone"]
  /\ UNCHANGED <<aux, svc, frame, promise, inputs_, aborted, hist>>

\* MaybeRunBatches calls RunBatch(batch_size): the batch is formed under the
\* lock, then mutex_.Unlock().
RunBatchForm(c) ==
  /\ ~aborted
  /\ pc[c] = "maybe_run"
  /\ mutex_ = c
  /\ BatchSize # 0
  /\ ~StopRule(BatchSize)
  /\ LET b == RunBatchPop(inference_queue_, BatchSize)
     IN /\ inference_queue_' = b.queue
        /\ run_counter_' = run_counter_ + b.popped
        /\ frame' = [frame EXCEPT ![c].batch = b.features,
                                  ![c].promises = b.promises,
                                  ![c].feature_counts = b.feature_counts,
                                  ![c].result = NoResult,
                                  ![c].policy_it = 0,
                                  ![c].promise_it = 1]
        /\ batch_no' = batch_no + 1
        /\ batch_of' = [r \in Requests |->
                          IF \E i \in 1..Len(b.promises) : b.promises[i] = r
                          THEN batch_no + 1 ELSE batch_of[r]]
        /\ front_on_empty' = (front_on_empty \/ b.front_on_empty)
  /\ mutex_' = NoThread
  /\ pc' = [pc EXCEPT ![c] = "engine"]
  /\ UNCHANGED <<aux, FLAGS_batch_size, num_clients_, queue_counter_,
                 num_runs_, promise, inputs_, aborted, next_id, submitted,
                 returned>>

----------------------------------------------------------------------------
\* A row of a tensor; reading past its end yields whatever lies there.
Row(tensor, i) == IF i \in DOMAIN tensor THEN tensor[i] ELSE Uninit

\* TfWorker::RunMany: copy the features over the first rows of the input
\* tensor, run the session on the whole tensor, copy the first num_features
\* rows of the outputs.
TfWorkerInputs(features, tensor) ==
  [i \in DOMAIN tensor |->
     IF i <= Len(features) THEN features[i] ELSE tensor[i]]

\* TfWorker::RunMany copying every row of the output tensors.
TfWorkerRunManyAllRows(features, tensor) ==
  LET input == TfWorkerInputs(features, tensor)
  IN [policies |-> [i \in 1..Len(tensor) |-> Policy(Row(input, i))],
      values |-> [i \in 1..Len(tensor) |-> Value(Row(input, i))],
      model |-> "model_path_"]

TfWorkerRunMany(features, tensor) ==
  LET num_features == Len(features)
      input == TfWorkerInputs(features, tensor)
  IN [policies |-> [i \in 1..num_features |-> Policy(Row(input, i))],
      values |-> [i \in 1..num_features |-> Value(Row(input, i))],
      model |-> "model_path_"]

\* The features vectors passed to dual_net_->RunMany so far, with one more
\* call: every feature of the call is counted once more.
EngineInputs(passed, features) ==
  [f \in DOMAIN passed \cup {features[i] : i \in 1..Len(features)} |->
     (IF f \in DOMAIN passed THEN passed[f] ELSE 0)
     + Cardinality({i \in 1..Len(features) : features[i] = f})]

\* RunBatch: dual_net_->RunMany(std::move(features)), without the lock.
EngineRunMany(c) ==
  /\ ~aborted
  /\ pc[c] = "engine"
  /\ inputs_' = TfWorkerInputs(frame[c].batch, inputs_)
  /\ frame' = [frame EXCEPT
                 ![c].result = TfWorkerRunMany(frame[c].batch, inputs_),
                 ![c].batch = <<>>]
  /\ engine_inputs' = EngineInputs(engine_inputs, frame[c].batch)
  /\ pc' = [pc EXCEPT ![c] = "fanout"]
  /\ UNCHANGED <<weak, others, svc, mutex_, promise, aborted, hist>>

\* An element of a vector; reading past its end yields whatever lies there.
At(s, i) == IF i \in DOMAIN s THEN s[i] ELSE Policy(Uninit)

\* RunBatch without "policy_it += num_features": every slice starts at the
\* beginning of the result.
SliceFromBegin(s, it, num_features) == [i \in 1..num_features |-> At(s, i)]

\* RunBatch slicing up to result.policies.end().
SliceToEnd(s, it, num_features) ==
  [i \in 1..(Len(s) - it) |-> At(s, it + i)]

\* RunBatch: the slice [policy_it, policy_it + num_features) of the result.
Slice(s, it, num_features) == [i \in 1..num_features |-> At(s, it + i)]

\* RunBatch: one iteration of the loop over feature_counts: set_value of the
\* next promise.  std::promise keeps the first value; a second set_value
\* throws.
SetValue(c) ==
  /\ ~aborted
  /\ pc[c] = "fanout"
  /\ frame[c].promise_it <= Len(frame[c].feature_counts)
  /\ LET f == frame[c]
         num_features == f.feature_counts[f.promise_it]
         p == f.promises[f.promise_it]
         res == [policies |-> Slice(f.result.policies, f.policy_it,
                                    num_features),
                 values |-> Slice(f.result.values, f.policy_it,
                                  num_features),
                 model |-> f.result.model]
     IN /\ promise' = [promise EXCEPT
                         ![p] = [set_count |-> @.set_count + 1,
                                 value |-> IF @.set_count = 0
                                           THEN res ELSE @.value]]
        /\ frame' = [frame EXCEPT
                       ![c].policy_it = @ + num_features,
                       ![c].promise_it = @ + 1]
  /\ UNCHANGED <<aux, svc, mutex_, pc, inputs_, aborted, hist>>

\* RunBatch: mutex_.Lock(); ++num_runs_; back to the loop of MaybeRunBatches.
Relock(c) ==
  /\ ~aborted
  /\ pc[c] = "fanout"
  /\ frame[c].promise_it > Len(frame[c].feature_counts)
  /\ mutex_ = NoThread
  /\ mutex_' = c
  /\ num_runs_' = num_runs_ + 1
  /\ frame' = [frame EXCEPT ![c] =
                 [EmptyFrame EXCEPT !.caller = frame[c].caller,
                                    !.request = frame[c].request]]
  /\ pc' = [pc EXCEPT ![c] = "maybe_run"]
  /\ UNCHANGED <<aux, FLAGS_batch_size, num_clients_, inference_queue_,
                 queue_counter_, run_counter_, promise, inputs_, aborted,
                 hist>>

\* RunMany: return future.get(), once the promise holds a value.
FutureGet(c) ==
  /\ ~aborted
  /\ pc[c] = "future_get"
  /\ promise[frame[c].request].set_count > 0
  /\ returned' = [returned EXCEPT
                    ![frame[c].request] = promise[frame[c].request].value]
  /\ frame' = [frame EXCEPT ![c] = EmptyFrame]
  /\ pc' = [pc EXCEPT ![c] = "idle"]
  /\ UNCHANGED <<aux, svc, mutex_, promise, inputs_, aborted, next_id,
                 submitted, batch_no, batch_of, front_on_empty>>

Next ==
  \/ \E c \in Clients : IncrementClientCount(c)
  \/ \E c \in Clients : DecrementClientCount(c)
  \/ \E c \in Clients, n \in 1..(FLAGS_batch_size + 1) : RunManyAbort(c, n)
  \/ \E c \in Clients, n \in 1..(FLAGS_batch_size + 1) : RunManyLock(c, n)
  \/ \E c \in Clients : RunManyPush(c)
  \/ \E c \in Clients : MaybeRunBatchesReturn(c)
  \/ \E c \in Clients : RunBatchForm(c)
  \/ \E c \in Clients : EngineRunMany(c)
  \/ \E c \in Clients : SetValue(c)
  \/ \E c \in Clients : Relock(c)
  \/ \E c \in Clients : FutureGet(c)

Spec == Init /\ [][Next]_vars

\* The steps of thread c that need no decision of the client: once a call of
\* the service has taken the lock, the thread runs on by itself.
Sched(c) ==
  \/ RunManyPush(c)
  \/ MaybeRunBatchesReturn(c)
  \/ RunBatchForm(c)
  \/ EngineRunMany(c)
  \/ SetValue(c)
  \/ Relock(c)
  \/ FutureGet(c)

\* Threads that can run do run, the engine answers every call and a free
\* mutex is acquired.  Whether a client submits, or destroys its handle, is
\* left to the client.
FairSpec == Spec /\ \A c \in Clients : WF_vars(Sched(c))

----------------------------------------------------------------------------
\* Three searcher threads share one service of a process started with
\* --batch_size=4; their requests have 2, 4 or 5 features.
ScenarioClients == {1, 2, 3}
ScenarioSizes == {2, 4, 5}

ScenarioInit ==
  /\ FLAGS_batch_size = 4
  /\ num_clients_ = 0
  /\ inference_queue_ = <<>>
  /\ queue_counter_ = 0
  /\ run_counter_ = 0
  /\ num_runs_ = 0
  /\ mutex_ = NoThread
  /\ pc = [c \in ScenarioClients |-> "none"]
  /\ frame = [c \in ScenarioClients |-> EmptyFrame]
  /\ promise = [r \in Requests |-> [set_count |-> 0, value |-> NoResult]]
  /\ inputs_ = [i \in 1..FLAGS_batch_size |-> Uninit]
  /\ aborted = FALSE
  /\ next_id = 0
  /\ submitted = [r \in Requests |-> 0]
  /\ batch_no = 0
  /\ batch_of = [r \in Requests |-> 0]
  /\ returned = [r \in Requests |-> NoResult]
  /\ front_on_empty = FALSE
  /\ weak = {}
  /\ engine_inputs = <<>>
  /\ EncoderIdle
  /\ PoolIdle
  /\ RestIdle

ScenarioNext ==
  \/ \E c \in ScenarioClients : IncrementClientCount(c)
  \/ \E c \in ScenarioClients : DecrementClientCount(c)
  \/ \E c \in ScenarioClients, n \in ScenarioSizes : RunManyAbort(c, n)
  \/ \E c \in ScenarioClients, n \in ScenarioSizes : RunManyLock(c, n)
  \/ \E c \in ScenarioClients : RunManyPush(c)
  \/ \E c \in ScenarioClients : MaybeRunBatchesReturn(c)
  \/ \E c \in ScenarioClients : RunBatchForm(c)
  \/ \E c \in ScenarioClients : EngineRunMany(c)
  \/ \E c \in ScenarioClients : SetValue(c)
  \/ \E c \in ScenarioClients : Relock(c)
  \/ \E c \in ScenarioClients : FutureGet(c)

ScenarioSpec == ScenarioInit /\ [][ScenarioNext]_vars

\* Two searcher threads whose handles exist already share one service of a
\* process started with --batch_size=4; no further handle is created.
PairClients == {1, 2}

PairInit ==
  /\ FLAGS_batch_size = 4
  /\ num_clients_ = 2
  /\ inference_queue_ = <<>>
  /\ queue_counter_ = 0
  /\ run_counter_ = 0
  /\ num_runs_ = 0
  /\ mutex_ = NoThread
  /\ pc = [c \in PairClients |-> "idle"]
  /\ frame = [c \in PairClients |-> EmptyFrame]
  /\ promise = [r \in Requests |-> [set_count |-> 0, value |-> NoResult]]
  /\ inputs_ = [i \in 1..FLAGS_batch_size |-> Uninit]
  /\ aborted = FALSE
  /\ next_id = 0
  /\ submitted = [r \in Requests |-> 0]
  /\ batch_no = 0
  /\ batch_of = [r \in Requests |-> 0]
  /\ returned = [r \in Requests |-> NoResult]
  /\ front_on_empty = FALSE
  /\ weak = {}
  /\ engine_inputs = <<>>
  /\ EncoderIdle
  /\ PoolIdle
  /\ RestIdle

PairNext ==
  \/ \E c \in PairClients : DecrementClientCount(c)
  \/ \E c \in PairClients, n \in ScenarioSizes : RunManyAbort(c, n)
  \/ \E c \in PairClients, n \in ScenarioSizes : RunManyLock(c, n)
  \/ \E c \in PairClients : RunManyPush(c)
  \/ \E c \in PairClients : MaybeRunBatchesReturn(c)
  \/ \E c \in PairClients : RunBatchForm(c)
  \/ \E c \in PairClients : EngineRunMany(c)
  \/ \E c \in PairClients : SetValue(c)
  \/ \E c \in PairClients : Relock(c)
  \/ \E c \in PairClients : FutureGet(c)

PairSpec == PairInit /\ [][PairNext]_vars

----------------------------------------------------------------------------
\* The BatchingService of src/cc/dual_net/remote_dual_net.cc.  Its factory
\* hands out counted and weak clients, Run is the RunMany above, and RunBatch
\* keeps the mutex while the engine runs.  The engine takes one features
\* vector per request and returns one Result per request
\* (src/cc/dual_net/tf_dual_net.cc).

\* WeakBatchingClient::WeakBatchingClient: the service is not told.
WeakBatchingClient(c) ==
  /\ ~aborted
  /\ pc[c] = "none"
  /\ \A d \in Clients : d < c => pc[d] # "none"
  /\ weak' = weak \cup {c}
  /\ pc' = [pc EXCEPT ![c] = "idle"]
  /\ UNCHANGED <<engine_inputs, others, svc, mutex_, frame, promise, inputs_,
                 aborted, hist>>

\* BatchingClientFactory::New counting the weak clients too.
NewCountsWeak(c, is_weak) ==
  /\ ~aborted
  /\ pc[c] = "none"
  /\ \A d \in Clients : d < c => pc[d] # "none"
  /\ mutex_ = NoThread
  /\ num_clients_' = num_clients_ + 1
  /\ weak' = IF is_weak THEN weak \cup {c} ELSE weak
  /\ pc' = [pc EXCEPT ![c] = "idle"]
  /\ UNCHANGED <<engine_inputs, others, FLAGS_batch_size, inference_queue_,
                 queue_counter_, run_counter_, num_runs_, mutex_, frame,
                 promise, inputs_, aborted, hist>>

\* BatchingClientFactory::New(bool weak).
New(c, is_weak) ==
  IF is_weak THEN WeakBatchingClient(c) ELSE IncrementClientCount(c)

\* The destructor of a client: ~CountedBatchingClient calls
\* DecrementClientCount, a WeakBatchingClient just goes.
DeleteClient(c) ==
  IF c \in weak
  THEN /\ ~aborted
       /\ pc[c] = "idle"
       /\ pc' = [pc EXCEPT ![c] = "gone"]
       /\ UNCHANGED <<aux, svc, mutex_, frame, promise, inputs_, aborted,
                      hist>>
  ELSE DecrementClientCount(c)

\* The features vectors of the requests of a batch, one per request.
FeatureVecs(features, feature_counts) ==
  [i \in 1..Len(feature_counts) |->
     SubSeq(features, SumSeq(SubSeq(feature_counts, 1, i - 1)) + 1,
            SumSeq(SubSeq(feature_counts, 1, i)))]

RECURSIVE Flatten(_)
Flatten(vecs) == IF vecs = <<>> THEN <<>> ELSE Head(vecs) \o Flatten(Tail(vecs))

\* TfWorker::RunMany(feature_vecs) of tf_dual_net.cc: the vectors are copied
\* one after the other over the first rows of the input tensor; the outputs
\* are cut into one Result per vector.
TfWorkerRunManyVecs(feature_vecs, tensor) ==
  LET input == TfWorkerInputs(Flatten(feature_vecs), tensor)
      feature_counts == [i \in 1..Len(feature_vecs) |-> Len(feature_vecs[i])]
      data(i) == SumSeq(SubSeq(feature_counts, 1, i - 1))
  IN [i \in 1..Len(feature_vecs) |->
        [policies |-> [k \in 1..feature_counts[i] |->
                         Policy(Row(input, data(i) + k))],
         values |-> [k \in 1..feature_counts[i] |->
                       Value(Row(input, data(i) + k))],
         model |-> "unset"]]

\* RunBatch of remote_dual_net.cc: the pop loop, the engine call and the
\* set_value of every promise, all under the lock; then ++num_runs_ and back
\* to the loop of MaybeRunBatches.
RunBatchLocked(c) ==
  /\ ~aborted
  /\ pc[c] = "maybe_run"
  /\ mutex_ = c
  /\ BatchSize # 0
  /\ ~StopRule(BatchSize)
  /\ LET b == RunBatchPop(inference_queue_, BatchSize)
         feature_vecs == FeatureVecs(b.features, b.feature_counts)
         results == TfWorkerRunManyVecs(feature_vecs, inputs_)
         slot(r) == CHOOSE i \in 1..Len(b.promises) : b.promises[i] = r
     IN /\ inference_queue_' = b.queue
        /\ run_counter_' = run_counter_ + b.popped
        /\ inputs_' = TfWorkerInputs(b.features, inputs_)
        /\ engine_inputs' = EngineInputs(engine_inputs, b.features)
        /\ promise' = [r \in Requests |->
                         IF \E i \in 1..Len(results) : b.promises[i] = r
                         THEN [set_count |-> promise[r].set_count + 1,
                               value |-> IF promise[r].set_count = 0
                                         THEN results[slot(r)]
                                         ELSE promise[r].value]
                         ELSE promise[r]]
        /\ batch_no' = batch_no + 1
        /\ batch_of' = [r \in Requests |->
                          IF \E i \in 1..Len(b.promises) : b.promises[i] = r
                          THEN batch_no + 1 ELSE batch_of[r]]
        /\ front_on_empty' = (front_on_empty \/ b.front_on_empty)
  /\ num_runs_' = num_runs_ + 1
  /\ UNCHANGED <<weak, others, FLAGS_batch_size, num_clients_, queue_counter_,
                 mutex_, pc, frame, aborted, next_id, submitted, returned>>

\* Three threads, each with one client of the factory.
ClientInit ==
  /\ FLAGS_batch_size \in 1..MaxBatchSize
  /\ num_clients_ = 0
  /\ inference_queue_ = <<>>
  /\ queue_counter_ = 0
  /\ run_counter_ = 0
  /\ num_runs_ = 0
  /\ mutex_ = NoThread
  /\ pc = [c \in ScenarioClients |-> "none"]
  /\ frame = [c \in ScenarioClients |-> EmptyFrame]
  /\ promise = [r \in Requests |-> [set_count |-> 0, value |-> NoResult]]
  /\ inputs_ = [i \in 1..FLAGS_batch_size |-> Uninit]
  /\ aborted = FALSE
  /\ next_id = 0
  /\ submitted = [r \in Requests |-> 0]
  /\ batch_no = 0
  /\ batch_of = [r \in Requests |-> 0]
  /\ returned = [r \in Requests |-> NoResult]
  /\ front_on_empty = FALSE
  /\ weak = {}
  /\ engine_inputs = <<>>
  /\ EncoderIdle
  /\ PoolIdle
  /\ RestIdle

ClientNext ==
  \/ \E c \in ScenarioClients, is_weak \in BOOLEAN : New(c, is_weak)
  \/ \E c \in ScenarioClients : DeleteClient(c)
  \/ \E c \in ScenarioClients, n \in 1..(FLAGS_batch_size + 1) :
       RunManyAbort(c, n)
  \/ \E c \in ScenarioClients, n \in 1..(FLAGS_batch_size + 1) :
       RunManyLock(c, n)
  \/ \E c \in ScenarioClients : RunManyPush(c)
  \/ \E c \in ScenarioClients : MaybeRunBatchesReturn(c)
  \/ \E c \in ScenarioClients : RunBatchLocked(c)
  \/ \E c \in ScenarioClients : FutureGet(c)

ClientSpec == ClientInit /\ [][ClientNext]_vars

----------------------------------------------------------------------------
\* The BatchingService of src/cc/dual_net/batching_service.cc.  Every client
\* it hands out is counted; RunBatch is the one of remote_dual_net.cc; the
\* size check of RunMany is written with >=.

\* BatchingService::RunMany: MG_CHECK(num_features >= FLAGS_batch_size).
ServiceSizeCheck(num_features) == num_features >= FLAGS_batch_size

\* BatchingService::RunMany with a size that fails the MG_CHECK: abort.  The
\* frame keeps the features the call was made with.
ServiceRunManyAbort(c, n) ==
  /\ ~aborted
  /\ pc[c] = "idle"
  /\ next_id < MaxRequests
  /\ ~ServiceSizeCheck(n)
  /\ aborted' = TRUE
  /\ frame' = [frame EXCEPT ![c] =
                 [EmptyFrame EXCEPT !.caller = "RunMany",
                                    !.features = MakeFeatures(next_id + 1, n)]]
  /\ UNCHANGED <<aux, svc, mutex_, pc, promise, inputs_, hist>>

\* BatchingService::RunMany: the size check, the promise, the lock and
\* queue_counter_ += num_features.
ServiceRunManyLock(c, n) ==
  /\ ~aborted
  /\ pc[c] = "idle"
  /\ next_id < MaxRequests
  /\ ServiceSizeCheck(n)
  /\ mutex_ = NoThread
  /\ mutex_' = c
  /\ next_id' = next_id + 1
  /\ submitted' = [submitted EXCEPT ![next_id + 1] = n]
  /\ queue_counter_' = queue_counter_ + n
  /\ frame' = [frame EXCEPT ![c] =
                 [EmptyFrame EXCEPT !.caller = "RunMany",
                                    !.request = next_id + 1,
                                    !.features = MakeFeatures(next_id + 1, n)]]
  /\ pc' = [pc EXCEPT ![c] = "push"]
  /\ UNCHANGED <<aux, FLAGS_batch_size, num_clients_, inference_queue_,
                 run_counter_, num_runs_, promise, inputs_, aborted, batch_no,
                 batch_of, returned, front_on_empty>>

\* MaybeRunBatches calls RunBatch; the model follows at most MaxRequests + 1
\* calls.
ServiceRunBatch(c) ==
  /\ num_runs_ <= MaxRequests
  /\ RunBatchLocked(c)

ServiceNext ==
  \/ \E c \in Clients : IncrementClientCount(c)
  \/ \E c \in Clients : DecrementClientCount(c)
  \/ \E c \in Clients, n \in 1..(FLAGS_batch_size + 1) :
       ServiceRunManyAbort(c, n)
  \/ \E c \in Clients, n \in 1..(FLAGS_batch_size + 1) :
       ServiceRunManyLock(c, n)
  \/ \E c \in Clients : RunManyPush(c)
  \/ \E c \in Clients : MaybeRunBatchesReturn(c)
  \/ \E c \in Clients : ServiceRunBatch(c)
  \/ \E c \in Clients : FutureGet(c)

ServiceSpec == Init /\ [][ServiceNext]_vars

-----------------------------------------------------------------------------
\* DualNet::SetFeatures (cc/dual_net/dual_net.cc), the feature encoder.

\* The board has kN * kN points and the history kMoveHistory plies (8 in
\* dual_net.h); the model takes a small board and a short history.
NumPoints == 2
kMoveHistory == 2

\* Number of SetFeatures calls a thread makes on one array.
MaxCalls == 2

kNumStoneFeatures == kMoveHistory * 2 + 1
kPlayerFeature == kMoveHistory * 2
kNumBoardFeatures == NumPoints * kNumStoneFeatures

Colors == {"kEmpty", "kBlack", "kWhite"}

OtherColor(color) == IF color = "kBlack" THEN "kWhite" ELSE "kBlack"

\* Position::Stones: the colour at every point of the board.
Stones == [0..(NumPoints - 1) -> Colors]

\* The histories SetFeatures is called with: history[j + 1] here is
\* history[j] of the source.  One of them is longer than kMoveHistory.
Histories == UNION {[1..n -> Stones] : n \in 0..(kMoveHistory + 1)}

\* A float of an array nobody initialised: neither 0 nor 1.
Indeterminate == 2

\* The service and the engine do not run while SetFeatures is examined.
BatchingIdleWith(batch_size) ==
  /\ FLAGS_batch_size = batch_size
  /\ num_clients_ = 0
  /\ inference_queue_ = <<>>
  /\ queue_counter_ = 0
  /\ run_counter_ = 0
  /\ num_runs_ = 0
  /\ mutex_ = NoThread
  /\ pc = [c \in Clients |-> "none"]
  /\ frame = [c \in Clients |-> EmptyFrame]
  /\ promise = [r \in Requests |-> [set_count |-> 0, value |-> NoResult]]
  /\ inputs_ = [i \in 1..FLAGS_batch_size |-> Uninit]
  /\ aborted = FALSE
  /\ next_id = 0
  /\ submitted = [r \in Requests |-> 0]
  /\ batch_no = 0
  /\ batch_of = [r \in Requests |-> 0]
  /\ returned = [r \in Requests |-> NoResult]
  /\ front_on_empty = FALSE
  /\ weak = {}
  /\ engine_inputs = <<>>

BatchingIdle == BatchingIdleWith(1)

batching == <<svc, mutex_, pc, frame, promise, inputs_, aborted, hist, weak,
              engine_inputs>>

\* MG_CHECK(history.size() <= kMoveHistory) admitting one ply too many.
HistoryCheckOffByOne(positions) == Len(positions) <= kMoveHistory + 1

\* MG_CHECK(history.size() <= kMoveHistory).
HistoryCheck(positions) == Len(positions) <= kMoveHistory

\* dst[0] |= value.
StoreOr(out, i, value) ==
  IF i \in DOMAIN out
    THEN [out EXCEPT ![i] = IF @ > value THEN @ ELSE value]
    ELSE out

\* dst[0] = value.  The MG_CHECK keeps every dst inside the array.
Store(out, i, value) ==
  IF i \in DOMAIN out THEN [out EXCEPT ![i] = value] ELSE out

\* The planes of the plies packed one float apart.
DstPacked(j) == j

\* features->data() + j * 2: the first float of ply j.
Dst(j) == j * 2

\* color != my_color ? 1 : 0.
StoneFeatureInverted(color, wanted) == IF color = wanted THEN 0 ELSE 1

\* color == my_color ? 1 : 0.
StoneFeature(color, wanted) == IF color = wanted THEN 1 ELSE 0

\* The while loop of the first for loop: one ply, every point of the board.
RECURSIVE WriteStones(_, _, _, _, _, _)
WriteStones(out, dst, end, stones, src, my_color) ==
  IF dst < end
    THEN LET color == stones[src]
             mine == Store(out, dst, StoneFeature(color, my_color))
             both == Store(mine, dst + 1,
                           StoneFeature(color, OtherColor(my_color)))
         IN WriteStones(both, dst + kNumStoneFeatures, end, stones, src + 1,
                        my_color)
    ELSE out

\* for (j = 0; j < history.size(); ++j).
RECURSIVE WritePlies(_, _, _, _)
WritePlies(out, j, positions, my_color) ==
  IF j < Len(positions)
    THEN WritePlies(WriteStones(out, Dst(j), Dst(j) + kNumBoardFeatures,
                                positions[j + 1], 0, my_color),
                    j + 1, positions, my_color)
    ELSE out

\* The while loop of the padding loop.
RECURSIVE ZeroStones(_, _, _)
ZeroStones(out, dst, end) ==
  IF dst < end
    THEN ZeroStones(Store(Store(out, dst, 0), dst + 1, 0),
                    dst + kNumStoneFeatures, end)
    ELSE out

\* The padding loop starting one ply late.
PadStartLate(positions) == Len(positions) + 1

\* for (; j < kMoveHistory; ++j): j is where the first loop left it.
PadStart(positions) == Len(positions)

RECURSIVE PadPlies(_, _)
PadPlies(out, j) ==
  IF j < kMoveHistory
    THEN PadPlies(ZeroStones(out, Dst(j), Dst(j) + kNumBoardFeatures), j + 1)
    ELSE out

\* to_play == Color::kWhite ? 1 : 0.
ToPlayFeatureWhite(color) == IF color = "kWhite" THEN 1 ELSE 0

\* float to_play_feature = to_play == Color::kBlack ? 1 : 0.
ToPlayFeature(color) == IF color = "kBlack" THEN 1 ELSE 0

\* The loop that sets the "to play" feature plane.
RECURSIVE WritePlayer(_, _, _, _)
WritePlayer(out, dst, end, to_play_feature) ==
  IF dst < end
    THEN WritePlayer(Store(out, dst, to_play_feature),
                     dst + kNumStoneFeatures, end, to_play_feature)
    ELSE out

\* DualNet::SetFeatures once its MG_CHECK has passed.
SetFeatures(positions, color, out) ==
  LET stones == WritePlies(out, 0, positions, color)
      padded == PadPlies(stones, PadStart(positions))
  IN WritePlayer(padded, kPlayerFeature, kPlayerFeature + kNumBoardFeatures,
                 ToPlayFeature(color))

\* DualNet::BoardFeatures features; of a caller: nothing initialises it.
NewBoardFeatures == [i \in 0..(kNumBoardFeatures - 1) |-> Indeterminate]

EncoderInit ==
  /\ BatchingIdle
  /\ PoolIdle
  /\ RestIdle
  /\ history \in Histories
  /\ to_play \in {"kBlack", "kWhite"}
  /\ board_features = NewBoardFeatures
  /\ encoder_pc = "ready"
  /\ num_calls = 0
  /\ first_features = <<>>

\* SetFeatures called with a history its MG_CHECK rejects.
SetFeaturesAbort ==
  /\ encoder_pc = "ready"
  /\ num_calls < MaxCalls
  /\ ~HistoryCheck(history)
  /\ encoder_pc' = "aborted"
  /\ num_calls' = num_calls + 1
  /\ UNCHANGED <<history, to_play, board_features, first_features, pool,
                 extra, batching>>

\* SetFeatures called with a history its MG_CHECK accepts.
SetFeaturesCall ==
  /\ encoder_pc = "ready"
  /\ num_calls < MaxCalls
  /\ HistoryCheck(history)
  /\ board_features' = SetFeatures(history, to_play, board_features)
  /\ first_features' =
       IF num_calls = 0 THEN board_features' ELSE first_features
  /\ num_calls' = num_calls + 1
  /\ encoder_pc' = "returned"
  /\ UNCHANGED <<history, to_play, pool, extra, batching>>

\* The caller hands the same array, as it is or overwritten by something
\* else in between, to another call with the same history and colour.
ReuseFeatures ==
  /\ encoder_pc = "returned"
  /\ num_calls < MaxCalls
  /\ \/ UNCHANGED board_features
     \/ \E value \in {0, 1, Indeterminate} :
          board_features' = [i \in DOMAIN board_features |-> value]
  /\ encoder_pc' = "ready"
  /\ UNCHANGED <<history, to_play, num_calls, first_features, pool, extra,
                 batching>>

EncoderNext ==
  \/ SetFeaturesAbort
  \/ SetFeaturesCall
  \/ ReuseFeatures

EncoderSpec == EncoderInit /\ [][EncoderNext]_vars

-----------------------------------------------------------------------------
\* The worker threads of TfDualNet and TrtDualNet.

\* Two threads per device, one device.
WorkerThreads == {1, 2}

\* The RunMany calls made on the engine, one caller thread each.
WorkItems == 1..MaxRequests

\* No InferenceData: what a worker holds before its first pop.
NoInference == [features |-> <<>>, promise |-> NoRequest]

PoolInit ==
  /\ BatchingIdle
  /\ EncoderIdle
  /\ RestIdle
  /\ running_ = TRUE
  /\ queue_ = <<>>
  /\ worker_pc = [w \in WorkerThreads |-> "test"]
  /\ worker_item = [w \in WorkerThreads |-> NoInference]
  /\ fulfilled = {}
  /\ caller_pc = [i \in WorkItems |-> "none"]
  /\ engine_pc = "alive"
  /\ worker_inputs_ =
       [w \in WorkerThreads |-> [i \in 1..MaxBatchSize |-> Uninit]]
  /\ pool_promise = [i \in WorkItems |-> [set_count |-> 0, value |-> NoResult]]
  /\ pool_features = [i \in WorkItems |-> <<>>]
  /\ pool_returned = [i \in WorkItems |-> NoResult]
  /\ pop_count = [i \in WorkItems |-> 0]
  /\ late_pops = [w \in WorkerThreads |-> 0]

\* TfDualNet::RunMany up to future.get(): queue_.Push of the work item.
TfDualNetRunMany(i, n) ==
  /\ caller_pc[i] = "none"
  /\ engine_pc = "alive"
  /\ queue_' = Append(queue_, [features |-> MakeFeatures(i, n), promise |-> i])
  /\ pool_features' = [pool_features EXCEPT ![i] = MakeFeatures(i, n)]
  /\ caller_pc' = [caller_pc EXCEPT ![i] = "blocked"]
  /\ UNCHANGED <<running_, worker_pc, worker_item, fulfilled, engine_pc,
                 worker_inputs_, pool_promise, pool_returned, pop_count,
                 late_pops, encoder, extra, batching>>

\* future.get() returns once the promise has its value.
TfDualNetFutureGet(i) ==
  /\ caller_pc[i] = "blocked"
  /\ pool_promise[i].set_count > 0
  /\ pool_returned' = [pool_returned EXCEPT ![i] = pool_promise[i].value]
  /\ caller_pc' = [caller_pc EXCEPT ![i] = "returned"]
  /\ UNCHANGED <<running_, queue_, worker_pc, worker_item, fulfilled,
                 engine_pc, worker_inputs_, pool_promise, pool_features,
                 pop_count, late_pops, encoder, extra, batching>>

\* while (running_): the worker goes on to pop, or leaves the loop.
WorkerTest(w) ==
  /\ worker_pc[w] = "test"
  /\ worker_pc' = [worker_pc EXCEPT ![w] = IF running_ THEN "pop" ELSE "leave"]
  /\ UNCHANGED <<running_, queue_, worker_item, fulfilled, caller_pc,
                 engine_pc, worker_inputs_, pool_promise, pool_features,
                 pool_returned, pop_count, late_pops, encoder, extra, batching>>

\* ThreadSafeQueue::PopWithTimeout handing the head to the worker and leaving
\* it in the queue.
PopWithTimeoutNoPop(queue) == queue

\* ThreadSafeQueue::PopWithTimeout: what is left of a queue that is not empty.
PopWithTimeout(queue) == Tail(queue)

\* queue_.PopWithTimeout(&inference, absl::Seconds(1)): the head of the
\* queue, or false after the timeout when there is none.
WorkerPop(w) ==
  /\ worker_pc[w] = "pop"
  /\ IF queue_ # <<>>
       THEN /\ worker_item' = [worker_item EXCEPT ![w] = Head(queue_)]
            /\ queue_' = PopWithTimeout(queue_)
            /\ pop_count' = [pop_count EXCEPT ![Head(queue_).promise] = @ + 1]
            /\ worker_pc' = [worker_pc EXCEPT ![w] = "run"]
       ELSE /\ worker_pc' = [worker_pc EXCEPT ![w] = "test"]
            /\ UNCHANGED <<queue_, worker_item, pop_count>>
  /\ late_pops' = [late_pops EXCEPT ![w] = IF running_ THEN @ ELSE @ + 1]
  /\ UNCHANGED <<running_, fulfilled, caller_pc, engine_pc, worker_inputs_,
                 pool_promise, pool_features, pool_returned, encoder,
                 extra, batching>>

\* worker.RunMany, result.model = model_path_ and
\* inference.promise.set_value.
WorkerRun(w) ==
  /\ worker_pc[w] = "run"
  /\ LET inference == worker_item[w]
         result == TfWorkerRunMany(inference.features, worker_inputs_[w])
     IN /\ worker_inputs_' =
             [worker_inputs_ EXCEPT
                ![w] = TfWorkerInputs(inference.features, @)]
        /\ pool_promise' =
             [pool_promise EXCEPT
                ![inference.promise] =
                   [set_count |-> @.set_count + 1, value |-> result]]
        /\ fulfilled' = fulfilled \cup {inference.promise}
  /\ worker_pc' = [worker_pc EXCEPT ![w] = "test"]
  /\ UNCHANGED <<running_, queue_, worker_item, caller_pc, engine_pc,
                 pool_features, pool_returned, pop_count, late_pops, encoder,
                 extra, batching>>

\* The functor returns: ~TfWorker, ~TrtWorker free the worker's session or
\* context and its pinned buffers, and the thread ends.
WorkerExit(w) ==
  /\ worker_pc[w] = "leave"
  /\ worker_pc' = [worker_pc EXCEPT ![w] = "exited"]
  /\ UNCHANGED <<running_, queue_, worker_item, fulfilled, caller_pc,
                 engine_pc, worker_inputs_, pool_promise, pool_features,
                 pool_returned, pop_count, late_pops, encoder, extra, batching>>

\* ~TfDualNet, ~TrtDualNet: running_ = false.
DestroyEngine ==
  /\ engine_pc = "alive"
  /\ running_' = FALSE
  /\ engine_pc' = "joining"
  /\ UNCHANGED <<queue_, worker_pc, worker_item, fulfilled, caller_pc,
                 worker_inputs_, pool_promise, pool_features, pool_returned,
                 pop_count, late_pops, encoder, extra, batching>>

\* The destructor going on without waiting for the worker threads.
JoinedNoWait(threads) == TRUE

\* thread.join() of every worker thread has returned.
Joined(threads) == \A w \in threads : worker_pc[w] = "exited"

\* ~TfDualNet, ~TrtDualNet: the joins; then engine->destroy() of every
\* engine and runtime_->destroy().
JoinWorkers ==
  /\ engine_pc = "joining"
  /\ Joined(WorkerThreads)
  /\ engine_pc' = "destroyed"
  /\ UNCHANGED <<running_, queue_, worker_pc, worker_item, fulfilled,
                 caller_pc, worker_inputs_, pool_promise, pool_features,
                 pool_returned, pop_count, late_pops, encoder, extra, batching>>

PoolNext ==
  \/ \E i \in WorkItems, n \in 1..MaxBatchSize : TfDualNetRunMany(i, n)
  \/ \E i \in WorkItems : TfDualNetFutureGet(i)
  \/ \E w \in WorkerThreads : WorkerTest(w)
  \/ \E w \in WorkerThreads : WorkerPop(w)
  \/ \E w \in WorkerThreads : WorkerRun(w)
  \/ \E w \in WorkerThreads : WorkerExit(w)
  \/ DestroyEngine
  \/ JoinWorkers

PoolSpec == PoolInit /\ [][PoolNext]_vars

----------------------------------------------------------------------------
\* Properties of the batching scheduler.

Range(s) == {s[i] : i \in 1..Len(s)}

\* Total features.size() of the requests in inference_queue_.
QueuedFeatures ==
  SumSeq([i \in 1..Len(inference_queue_) |->
            Len(inference_queue_[i].features)])

\* C1: whenever the scheduler mutex is free (also while an engine call is in
\* flight), run_counter_ <= queue_counter_ and their difference is the total
\* number of features of the requests waiting in inference_queue_.
C1_CountersMatchQueue ==
  mutex_ = NoThread =>
    /\ run_counter_ <= queue_counter_
    /\ queue_counter_ - run_counter_ = QueuedFeatures

\* C1 witness: the mutex is free, an engine call is in flight, requests have
\* been dispatched and another one waits in the queue.
C1_Witness ==
  /\ mutex_ = NoThread
  /\ \E c \in Clients : pc[c] = "engine"
  /\ run_counter_ > 0
  /\ inference_queue_ # <<>>

\* The outputs the network computes from the features of request r.
OwnPolicies(r) == [i \in 1..submitted[r] |-> Policy(Feature(r, i))]
OwnValues(r) == [i \in 1..submitted[r] |-> Value(Feature(r, i))]

\* Position in the batch at which the k-th request of a batch starts.
Offset(feature_counts, k) == SumSeq(SubSeq(feature_counts, 1, k - 1))

\* C2: fan-out isolation.  The k-th request of a batch is fulfilled with the
\* engine outputs at positions [n1+..+n(k-1), n1+..+nk) of the result, and
\* these are the outputs computed from its own features: no promise and no
\* returned Result holds an output of another request or of an unwritten row.
C2_FanOutIsolation ==
  /\ \A c \in Clients :
       pc[c] = "fanout" =>
         \A k \in 1..(frame[c].promise_it - 1) :
           LET f == frame[c]
               off == Offset(f.feature_counts, k)
               n == f.feature_counts[k]
           IN /\ promise[f.promises[k]].value.policies =
                   SubSeq(f.result.policies, off + 1, off + n)
              /\ promise[f.promises[k]].value.values =
                   SubSeq(f.result.values, off + 1, off + n)
  /\ \A r \in Requests :
       /\ promise[r].set_count > 0 =>
            /\ promise[r].value.policies = OwnPolicies(r)
            /\ promise[r].value.values = OwnValues(r)
       /\ returned[r] # NoResult =>
            /\ returned[r].policies = OwnPolicies(r)
            /\ returned[r].values = OwnValues(r)

\* C2 witness: a batch of two requests has been run and both promises are set.
C2_Witness ==
  \E c \in Clients :
    /\ pc[c] = "fanout"
    /\ Len(frame[c].promises) = 2
    /\ frame[c].promise_it = 3
    /\ \A k \in 1..2 : promise[frame[c].promises[k]].set_count = 1

\* Number of places (queue entries, batches in flight) holding promise r.
Holders(r) ==
  Cardinality({i \in 1..Len(inference_queue_) :
                 inference_queue_[i].promise = r})
  + SumSeq([c \in Clients |->
              Cardinality({k \in 1..Len(frame[c].promises) :
                             frame[c].promises[k] = r})])

\* C3: the promise of a request is fulfilled exactly once.  set_value is
\* never called twice on it, it is never held by two batches (or by a batch
\* and the queue), a finished batch leaves none of its promises unset, and
\* the submitting thread stays inside RunMany until the promise is set and
\* returns the value that was set.
C3_FulfilledExactlyOnce ==
  \A r \in Requests :
    /\ promise[r].set_count <= 1
    /\ Holders(r) <= 1
    /\ (batch_of[r] > 0 /\ Holders(r) = 0) => promise[r].set_count = 1
    /\ (r <= next_id /\ promise[r].set_count = 0) =>
         \E c \in Clients :
           /\ frame[c].request = r
           /\ pc[c] \in {"push", "maybe_run", "engine", "fanout",
                         "future_get"}
    /\ returned[r] # NoResult =>
         /\ promise[r].set_count = 1
         /\ returned[r] = promise[r].value

\* C3 witness: a request that shared its batch with another one has been
\* fulfilled and its RunMany call has returned.
C3_Witness ==
  \E r, q \in Requests :
    /\ r # q
    /\ batch_of[r] > 0
    /\ batch_of[r] = batch_of[q]
    /\ promise[r].set_count = 1
    /\ returned[r] # NoResult

Submitted(r) == submitted[r] > 0
Returned(r) == returned[r] # NoResult

\* C4 as claimed: every RunMany call that passed the size check returns a
\* Result, unless the process aborts.
C4_AcceptedSubmitReturns ==
  \A r \in Requests : Submitted(r) ~> (Returned(r) \/ aborted)

\* C4 as amended: every RunMany call that passed the size check returns a
\* Result, unless the process aborts, provided no client keeps a handle idle
\* forever: each client that is not inside RunMany eventually calls RunMany
\* again or destroys its handle.
C4_SubmitReturnsIfNoClientIdles ==
  (\A c \in Clients : []<>(pc[c] # "idle")) =>
    \A r \in Requests : Submitted(r) ~> (Returned(r) \/ aborted)

\* C4 witness: the only request ever submitted was smaller than a batch and
\* had to wait for the other client; that client destroyed its handle and the
\* request has returned.
C4_Witness ==
  \E r \in Requests :
    /\ next_id = 1
    /\ submitted[r] < FLAGS_batch_size
    /\ num_clients_ = 1
    /\ \E c \in Clients : pc[c] = "gone"
    /\ Returned(r)

\* Every counted client has a request in the queue, as MaybeRunBatches
\* counts it.
FullCensus ==
  /\ inference_queue_ # <<>>
  /\ num_clients_ <= Len(inference_queue_)

\* C5: progress under a full census.  Whenever the queue is not empty and
\* num_clients_ <= the number of queued requests, a thread is inside
\* MaybeRunBatches holding the mutex, and when it leaves MaybeRunBatches it
\* has not stopped but has formed a batch that contains the request at the
\* head of the queue; no RunMany call and no change of num_clients_ comes
\* in between.
C5_ProgressUnderFullCensus ==
  [][/\ FullCensus' => \E c \in Clients : pc'[c] = "maybe_run" /\ mutex_' = c
     /\ \A c \in Clients :
          (pc[c] = "maybe_run" /\ FullCensus /\ pc'[c] # "maybe_run") =>
            /\ pc'[c] = "engine"
            /\ Head(inference_queue_).promise \in Range(frame'[c].promises)
     /\ FullCensus => (next_id' = next_id /\ num_clients_' = num_clients_)
    ]_vars

\* C5 witness: a batch smaller than FLAGS_batch_size is at the engine; it was
\* formed, with nothing left in the queue, because every counted client had
\* a request in the queue.
C5_Witness ==
  \E c \in Clients :
    /\ pc[c] = "engine"
    /\ Len(frame[c].batch) < FLAGS_batch_size
    /\ inference_queue_ = <<>>
    /\ num_clients_ >= 1
    /\ num_clients_ <= Len(frame[c].promises)

\* C6: FIFO dispatch.  Requests are numbered in the order in which they were
\* enqueued and batches in the order in which they were formed.  A request
\* that is in a batch was preceded by every earlier request, into the same or
\* an earlier batch; the queue holds the requests that are in no batch yet,
\* in the order of their submission.
C6_FifoDispatch ==
  /\ \A a, b \in Requests :
       (a < b /\ batch_of[b] > 0) =>
         (batch_of[a] > 0 /\ batch_of[a] <= batch_of[b])
  /\ \A i, j \in 1..Len(inference_queue_) :
       i < j => inference_queue_[i].promise < inference_queue_[j].promise
  /\ \A i \in 1..Len(inference_queue_) :
       batch_of[inference_queue_[i].promise] = 0

\* C6 witness: two requests were dispatched in different batches.
C6_Witness ==
  \E a, b \in Requests :
    /\ a < b
    /\ batch_of[a] > 0
    /\ batch_of[a] < batch_of[b]

\* The features of the requests whose promises are given, one request after
\* the other.
RECURSIVE ConcatFeatures(_)
ConcatFeatures(promises) ==
  IF promises = <<>> THEN <<>>
  ELSE MakeFeatures(Head(promises), submitted[Head(promises)])
       \o ConcatFeatures(Tail(promises))

\* C7: a request is dispatched atomically.  The batch handed to the engine
\* is the concatenation of the complete feature vectors of its requests, in
\* their order; a request in the queue still has all its features and is in
\* no batch.
C7_AtomicDispatch ==
  /\ \A c \in Clients :
       pc[c] = "engine" =>
         /\ frame[c].batch = ConcatFeatures(frame[c].promises)
         /\ \A k \in 1..Len(frame[c].promises) :
              frame[c].feature_counts[k] = submitted[frame[c].promises[k]]
  /\ \A i \in 1..Len(inference_queue_) :
       LET inference == inference_queue_[i]
       IN /\ inference.features =
               MakeFeatures(inference.promise, submitted[inference.promise])
          /\ \A c \in Clients :
               inference.promise \notin Range(frame[c].promises)

\* C7 witness: a batch with room left is at the engine while the request at
\* the head of the queue, which did not fit into that room, waits entire.
C7_Witness ==
  \E c \in Clients :
    /\ pc[c] = "engine"
    /\ Len(frame[c].batch) < FLAGS_batch_size
    /\ inference_queue_ # <<>>
    /\ Len(Head(inference_queue_).features)
         > FLAGS_batch_size - Len(frame[c].batch)

\* C8: every batch handed to the engine has at most FLAGS_batch_size
\* features.
C8_BatchWithinLimit ==
  \A c \in Clients :
    pc[c] = "engine" =>
      /\ Len(frame[c].batch) <= FLAGS_batch_size
      /\ SumSeq(frame[c].feature_counts) <= FLAGS_batch_size

\* C8 witness: two requests fill a batch exactly.
C8_Witness ==
  \E c \in Clients :
    /\ pc[c] = "engine"
    /\ Len(frame[c].promises) = 2
    /\ Len(frame[c].batch) = FLAGS_batch_size

C10_ResultSizes ==
  \A r \in Requests :
    Returned(r) =>
      /\ Len(returned[r].policies) = submitted[r]
      /\ Len(returned[r].values) = submitted[r]

\* C10 witness: two requests that shared a batch have both returned.
C10_Witness ==
  \E r, q \in Requests :
    /\ r # q
    /\ batch_of[r] > 0
    /\ batch_of[r] = batch_of[q]
    /\ Returned(r)
    /\ Returned(q)

\* The scenario of three counted clients: two of them have each submitted a
\* request of 2 features, the only requests so far, and both requests are in
\* the queue; client c is idle and has submitted nothing.
ThirdClientIdle(c) ==
  /\ FLAGS_batch_size = 4
  /\ num_clients_ = 3
  /\ pc[c] = "idle"
  /\ next_id = 2
  /\ Len(inference_queue_) = 2
  /\ \A i \in 1..2 : Len(inference_queue_[i].features) = 2

\* C11 as claimed: once two of three counted clients have each submitted a
\* request of 2 features and the third has submitted nothing, no batch is
\* formed as long as the third client neither submits nor deregisters.
C11_NoDispatchBeforeThirdClient ==
  [][((\E c \in ScenarioClients : ThirdClientIdle(c))
      /\ next_id' = next_id /\ num_clients_' = num_clients_ /\ ~aborted')
     => batch_no' = batch_no]_vars

\* C11 as amended: once two of three counted clients have each submitted a
\* request of 2 features, FLAGS_batch_size = 4 features are waiting and the
\* second RunMany call forms one batch of 4 with both requests at once, while
\* the third client is still counted and idle (unless that client aborts the
\* process with an oversize request).
C11_FullBatchDispatchedAtOnce ==
  [][\A c \in ScenarioClients :
       ThirdClientIdle(c) =>
         \/ aborted'
         \/ /\ batch_no' = batch_no + 1
            /\ inference_queue_' = <<>>
            /\ num_clients_' = 3
            /\ pc'[c] = "idle"
            /\ \E b \in ScenarioClients :
                 /\ pc[b] = "maybe_run"
                 /\ frame[b].caller = "RunMany"
                 /\ pc'[b] = "engine"
                 /\ frame'[b].promises = <<1, 2>>
                 /\ Len(frame'[b].batch) = 4]_vars

\* C11 witness: the two requests of 2 features are at the engine as one batch
\* of 4 while all three clients are counted and the third is idle, having
\* submitted nothing.
C11_Witness ==
  \E b, c \in ScenarioClients :
    /\ num_clients_ = 3
    /\ pc[c] = "idle"
    /\ next_id = 2
    /\ submitted[1] = 2 /\ submitted[2] = 2
    /\ pc[b] = "engine"
    /\ frame[b].promises = <<1, 2>>
    /\ Len(frame[b].batch) = 4

\* The clients that have a request in the queue.
QueuedClients ==
  {c \in DOMAIN pc :
     /\ frame[c].request # NoRequest
     /\ \E i \in 1..Len(inference_queue_) :
          inference_queue_[i].promise = frame[c].request}

\* C12: the census stop rule.  Whenever fewer than FLAGS_batch_size features
\* are waiting and num_clients_ is greater than the number of distinct
\* clients, counted or weak, that have a request in the queue, the next step
\* forms no batch: nothing is popped and no promise is set.
C12_CensusStopRule ==
  [][(/\ queue_counter_ - run_counter_ < FLAGS_batch_size
      /\ num_clients_ > Cardinality(QueuedClients))
     => /\ batch_no' = batch_no
        /\ run_counter_' = run_counter_
        /\ inference_queue_ # <<>> =>
             /\ inference_queue_' # <<>>
             /\ Head(inference_queue_') = Head(inference_queue_)
        /\ promise' = promise]_vars

\* C12 witness: MaybeRunBatches has stopped and released the lock with the
\* request of a weak client in the queue, because two counted clients are
\* idle.
C12_Witness ==
  \E w \in weak :
    /\ mutex_ = NoThread
    /\ pc[w] = "future_get"
    /\ w \in QueuedClients
    /\ promise[frame[w].request].set_count = 0
    /\ queue_counter_ - run_counter_ < FLAGS_batch_size
    /\ num_clients_ > Cardinality(QueuedClients)

\* The counted clients whose handle exists and is not being destroyed.
LiveCounted ==
  {c \in DOMAIN pc :
     /\ c \notin weak
     /\ pc[c] \notin {"none", "gone"}
     /\ frame[c].caller # "Decrement"}

\* C13: no fractional batch while a potential submitter exists.  Whenever
\* RunBatch hands the engine fewer than FLAGS_batch_size features, every live
\* counted client had a request in the queue when the batch was formed.
C13_NoFractionalBatchWhilePeerIdle ==
  [][\A b \in DOMAIN pc :
       (/\ pc[b] = "maybe_run"
        /\ pc'[b] = "engine"
        /\ Len(frame'[b].batch) < FLAGS_batch_size)
       => LiveCounted \subseteq QueuedClients]_vars

\* C14: two registered counted clients, FLAGS_batch_size = 4.  While both
\* handles exist, a first request of 2 features is not dispatched alone;
\* when the two clients have each submitted a request of 2 features, these
\* two requests are dispatched as one batch of 4 features and no other batch
\* is formed, and each RunMany call gets (and returns) a Result of 2 entries
\* that are the outputs of its own 2 features.
C14_TwoClientsOneBatch ==
  (FLAGS_batch_size = 4 /\ num_clients_ = 2 /\ submitted[1] = 2) =>
    /\ next_id = 1 => batch_no = 0
    /\ (next_id = 2 /\ submitted[2] = 2) =>
         /\ batch_no <= 1
         /\ batch_of[1] = batch_no
         /\ batch_of[2] = batch_no
         /\ \A c \in PairClients :
              pc[c] = "engine" =>
                /\ frame[c].promises = <<1, 2>>
                /\ Len(frame[c].batch) = 4
         /\ \A r \in 1..2 :
              /\ promise[r].set_count > 0 =>
                   /\ Len(promise[r].value.policies) = 2
                   /\ promise[r].value.policies = OwnPolicies(r)
                   /\ promise[r].value.values = OwnValues(r)
              /\ Returned(r) => returned[r] = promise[r].value

\* C14 witness: both clients have their Result back from the one batch.
C14_Witness ==
  /\ FLAGS_batch_size = 4
  /\ num_clients_ = 2
  /\ next_id = 2
  /\ submitted[1] = 2 /\ submitted[2] = 2
  /\ batch_no = 1
  /\ Returned(1) /\ Returned(2)
  /\ \A c \in PairClients : pc[c] = "idle"

\* C15: single-client workload.  When a RunMany call has pushed its request
\* and enters MaybeRunBatches while num_clients_ = 1, its next step is
\* RunBatch with a batch that contains the request: the call does not leave
\* MaybeRunBatches with its request still in the queue.
C15_SingleClientDispatchesAtOnce ==
  [][\A c \in Clients :
       (/\ pc[c] = "maybe_run"
        /\ frame[c].caller = "RunMany"
        /\ c \in QueuedClients
        /\ num_clients_ = 1)
       => /\ pc'[c] = "engine"
          /\ frame[c].request \in Range(frame'[c].promises)
          /\ c \notin QueuedClients']_vars

\* C15 witness: the only counted client has submitted fewer than
\* FLAGS_batch_size features and its own RunMany call has taken them to the
\* engine.
C15_Witness ==
  \E c \in Clients :
    /\ num_clients_ = 1
    /\ pc[c] = "engine"
    /\ frame[c].caller = "RunMany"
    /\ frame[c].promises = <<frame[c].request>>
    /\ Len(frame[c].batch) < FLAGS_batch_size
    /\ \A d \in Clients \ {c} : pc[d] = "none"

\* C16: a request of exactly FLAGS_batch_size features.  Its RunMany call
\* does not leave MaybeRunBatches for future.get() while the request is still
\* in the queue, whatever num_clients_ is and whatever was queued ahead of it;
\* and the batch that carries it to the engine holds no other request.
C16_ExactlyBatchSizeRunsAlone ==
  \A c \in Clients :
    /\ (/\ pc[c] = "future_get"
        /\ submitted[frame[c].request] = FLAGS_batch_size)
       => /\ c \notin QueuedClients
          /\ batch_of[frame[c].request] > 0
    /\ (/\ pc[c] = "engine"
        /\ \E k \in 1..Len(frame[c].promises) :
             submitted[frame[c].promises[k]] = FLAGS_batch_size)
       => /\ Len(frame[c].promises) = 1
          /\ Len(frame[c].batch) = FLAGS_batch_size

\* C16 witness: a request of FLAGS_batch_size features was submitted behind a
\* smaller request that was waiting for the second counted client; the same
\* RunMany call has run the smaller request and now has its own request at
\* the engine, alone.
C16_Witness ==
  \E c \in Clients :
    LET r == frame[c].request
    IN /\ pc[c] = "engine"
       /\ frame[c].caller = "RunMany"
       /\ r > 1
       /\ submitted[r] = FLAGS_batch_size
       /\ frame[c].promises = <<r>>
       /\ submitted[r - 1] < FLAGS_batch_size
       /\ batch_of[r - 1] = batch_of[r] - 1
       /\ num_clients_ = 2

\* C17: an oversize submission is fatal.  No RunMany call with more than
\* FLAGS_batch_size features gets past the size check: none is counted in
\* queue_counter_ (as the history of accepted calls records) and none is in
\* the queue.
C17_OversizeNeverQueued ==
  /\ \A r \in Requests : submitted[r] <= FLAGS_batch_size
  /\ \A i \in 1..Len(inference_queue_) :
       Len(inference_queue_[i].features) <= FLAGS_batch_size

\* C18: the precondition of RunMany is num_features <= FLAGS_batch_size.  The
\* process is aborted only by a call with more than FLAGS_batch_size
\* features; a call with 1..FLAGS_batch_size features is accepted.
C18_AcceptsUpToBatchSize ==
  aborted =>
    \E c \in Clients :
      /\ frame[c].caller = "RunMany"
      /\ Len(frame[c].features) > FLAGS_batch_size

\* C19: num_clients_ is the number of live counted clients.  After any
\* sequence of creations and disposals of counted and weak clients it equals
\* the number of CountedBatchingClient handles that exist (a handle whose
\* destructor has begun no longer counts); weak clients do not change it and
\* it is never negative.
C19_ClientCountIsLiveCounted ==
  /\ num_clients_ = Cardinality(LiveCounted)
  /\ num_clients_ >= 0

\* C19 witness: a weak and a counted client have been created and destroyed,
\* a second counted client still exists.
C19_Witness ==
  \E w, c, d \in ScenarioClients :
    /\ w \in weak /\ pc[w] = "gone"
    /\ c \notin weak /\ pc[c] = "gone"
    /\ d \notin weak /\ pc[d] = "idle"
    /\ num_clients_ = 1

\* Requests are waiting that total fewer than FLAGS_batch_size features.
ShortQueue ==
  /\ inference_queue_ # <<>>
  /\ queue_counter_ - run_counter_ < FLAGS_batch_size

\* C20: deregistering a counted client re-evaluates batch formation.  When
\* requests totalling fewer than FLAGS_batch_size features are held back
\* because num_clients_ exceeds the number of queued requests, the
\* DecrementClientCount call that lowers num_clients_ to that number keeps
\* the lock, enters MaybeRunBatches and there, before it returns, forms one
\* batch of all the queued requests for the engine.
C20_DeregisterDispatches ==
  [][\A c \in Clients :
       /\ (/\ pc[c] = "idle"
           /\ pc'[c] # "idle"
           /\ ShortQueue
           /\ num_clients_ > Len(inference_queue_)
           /\ num_clients_' = Len(inference_queue_))
          => /\ pc'[c] = "maybe_run"
             /\ mutex_' = c
             /\ inference_queue_' = inference_queue_
       /\ (/\ pc[c] = "maybe_run"
           /\ frame[c].caller = "Decrement"
           /\ ShortQueue
           /\ num_clients_ = Len(inference_queue_))
          => /\ pc'[c] = "engine"
             /\ inference_queue_' = <<>>
             /\ frame'[c].promises =
                  [i \in 1..Len(inference_queue_) |->
                     inference_queue_[i].promise]
             /\ num_clients_' = num_clients_]_vars

\* C20 witness: the thread that destroyed its handle is at the engine with a
\* batch of fewer than FLAGS_batch_size features, the request of the other
\* client.
C20_Witness ==
  \E c \in Clients :
    /\ pc[c] = "engine"
    /\ frame[c].caller = "Decrement"
    /\ frame[c].promises # <<>>
    /\ Len(frame[c].batch) < FLAGS_batch_size
    /\ num_clients_ = Len(frame[c].promises)

\* Thread c makes an engine call in this step: it returns from
\* dual_net_->RunMany with the result of its batch (RunBatch of part_000), or
\* it runs a whole RunBatch (RunBatch of remote_dual_net.cc and
\* batching_service.cc).
EngineCalledBy(c) ==
  \/ pc[c] = "engine" /\ pc'[c] = "fanout"
  \/ pc[c] = "maybe_run" /\ pc'[c] = "maybe_run" /\ num_runs_' # num_runs_

\* C21: while an engine call of the scheduler is in flight the thread that
\* made it does not hold the scheduler mutex, so that RunMany,
\* IncrementClientCount and DecrementClientCount of other threads can take
\* it.
C21_EngineCallWithoutMutex ==
  [][\A c \in DOMAIN pc :
       /\ pc[c] = "engine" => mutex_ # c
       /\ EngineCalledBy(c) => mutex_ # c]_vars

\* The threads that have an engine call in flight: between mutex_.Unlock()
\* and the return of dual_net_->RunMany.
InFlight == {c \in DOMAIN pc : pc[c] = "engine"}

\* C22 as claimed: at any time at most one engine call of the scheduler is
\* in flight.
C22_OneEngineCallInFlight == Cardinality(InFlight) <= 1

\* C22 as amended: batches are formed one at a time, under the mutex, and a
\* thread blocks in its engine call, so it has at most one call in flight;
\* the calls of different threads may overlap.  Calls in flight carry
\* disjoint sets of requests, none of which is still in the queue, and are
\* made without the mutex from inside RunMany or DecrementClientCount.
C22_EngineCallsSerialPerThread ==
  /\ \A c, d \in InFlight :
       c # d => Range(frame[c].promises) \cap Range(frame[d].promises) = {}
  /\ \A c \in InFlight :
       /\ mutex_ # c
       /\ frame[c].caller \in {"RunMany", "Decrement"}
       /\ Len(frame[c].promises) = Cardinality(Range(frame[c].promises))
       /\ \A i \in 1..Len(inference_queue_) :
            inference_queue_[i].promise \notin Range(frame[c].promises)

\* C22 witness: two threads have an engine call in flight at the same time.
C22_Witness ==
  \E c, d \in InFlight :
    /\ c # d
    /\ frame[c].promises # <<>>
    /\ frame[d].promises # <<>>

RECURSIVE SumOver(_, _)
SumOver(f, S) ==
  IF S = {} THEN 0
  ELSE LET x == CHOOSE x \in S : TRUE IN f[x] + SumOver(f, S \ {x})

\* Every RunMany call made so far has returned.
AllReturned == next_id > 0 /\ \A r \in 1..next_id : Returned(r)

\* C23: no submitted feature is dropped.  Every feature of a request whose
\* RunMany call has returned was passed to the engine, no feature is ever
\* passed to the engine in two calls, the engine is passed nothing but
\* submitted features, and once all calls have returned the engine has been
\* passed at least as many feature arrays as the clients submitted.
C23_NoFeatureDropped ==
  /\ \A f \in DOMAIN engine_inputs :
       /\ engine_inputs[f] = 1
       /\ f[1] \in 1..next_id
       /\ f[2] \in 1..submitted[f[1]]
  /\ \A r \in Requests :
       Returned(r) =>
         \A i \in 1..submitted[r] : Feature(r, i) \in DOMAIN engine_inputs
  /\ AllReturned =>
       SumOver(engine_inputs, DOMAIN engine_inputs) >= SumSeq(submitted)

\* C23 witness: several requests, one of them of more than one feature, have
\* all returned.
C23_Witness ==
  /\ next_id >= 2
  /\ AllReturned
  /\ \E r \in 1..next_id : submitted[r] > 1
  /\ SumOver(engine_inputs, DOMAIN engine_inputs) = SumSeq(submitted)

-----------------------------------------------------------------------------
\* RemoteDualNet (cc/dual_net/remote_dual_net.cc): the inference worker is
\* another process that fetches batches with GetFeatures and answers them
\* with PutOutputs.

\* The threads on which the gRPC server runs GetFeatures calls.
Handlers == {1, 2}

\* kNumMoves: one move per point and the pass.
kNumMoves == NumPoints + 1

\* The feature arrays a request is made of: one that nobody initialised and
\* one that SetFeatures has written.
RemoteArrays ==
  {NewBoardFeatures, SetFeatures(<<>>, "kBlack", NewBoardFeatures)}

\* The requests made of the engine, numbered in the order of their calls.
RemoteItems == 1..NumClients

NoHandlerFrame == [inference |-> NoInference, batch_id |-> 0, status |-> "none"]

RemoteInit ==
  /\ \E batch_size \in 1..MaxBatchSize : BatchingIdleWith(batch_size)
  /\ EncoderIdle
  /\ CountersIdle
  /\ TransposeIdle
  /\ running_ = TRUE
  /\ queue_ = <<>>
  /\ worker_pc = <<>>
  /\ worker_item = <<>>
  /\ fulfilled = {}
  /\ caller_pc = [i \in RemoteItems |-> "none"]
  /\ engine_pc = "none"
  /\ worker_inputs_ = <<>>
  /\ pool_promise =
       [i \in RemoteItems |-> [set_count |-> 0, value |-> NoResult]]
  /\ pool_features = [i \in RemoteItems |-> <<>>]
  /\ pool_returned = [i \in RemoteItems |-> NoResult]
  /\ pop_count = [i \in RemoteItems |-> 0]
  /\ late_pops = <<>>
  /\ batch_id_ = 1
  /\ pending_map_ = <<>>
  /\ handler_pc = [h \in Handlers |-> "idle"]
  /\ handler_frame = [h \in Handlers |-> NoHandlerFrame]
  /\ responses = <<>>
  /\ cancelled = FALSE
  /\ remote_aborted = FALSE
  /\ put_log = {}

workers == <<running_, worker_pc, worker_item, fulfilled, engine_pc,
             worker_inputs_, late_pops>>
elsewhere == <<workers, encoder, counters, transpose, batching>>

\* RemoteDualNet::RunMany up to future.get(): queue_.Push of the request.
RemoteRunMany(i, n, array) ==
  /\ ~remote_aborted
  /\ caller_pc[i] = "none"
  /\ \A j \in 1..(i - 1) : caller_pc[j] # "none"
  /\ queue_' = Append(queue_, [features |-> [k \in 1..n |-> array],
                               promise |-> i])
  /\ pool_features' = [pool_features EXCEPT ![i] = [k \in 1..n |-> array]]
  /\ caller_pc' = [caller_pc EXCEPT ![i] = "blocked"]
  /\ UNCHANGED <<pool_promise, pool_returned, pop_count, remote, elsewhere>>

\* RemoteDualNet::RunMany: future.get() returns once the promise is set.
RemoteFutureGet(i) ==
  /\ ~remote_aborted
  /\ caller_pc[i] = "blocked"
  /\ pool_promise[i].set_count > 0
  /\ pool_returned' = [pool_returned EXCEPT ![i] = pool_promise[i].value]
  /\ caller_pc' = [caller_pc EXCEPT ![i] = "returned"]
  /\ UNCHANGED <<queue_, pool_promise, pool_features, pop_count, remote,
                 elsewhere>>

\* The worker calls GetFeatures; the server runs it on a free thread.
GetFeaturesCall(h) ==
  /\ ~remote_aborted
  /\ ~cancelled
  /\ handler_pc[h] = "idle"
  /\ handler_pc' = [handler_pc EXCEPT ![h] = "poll"]
  /\ handler_frame' = [handler_frame EXCEPT ![h] = NoHandlerFrame]
  /\ UNCHANGED <<queue_, caller_pc, pool_promise, pool_features,
                 pool_returned, pop_count, batch_id_, pending_map_, responses,
                 cancelled, remote_aborted, put_log, elsewhere>>

\* GetFeatures: while (!queue_.PopWithTimeout(...)) { if
\* (context->IsCancelled()) return CANCELLED; }.  The pop comes first: the
\* cancellation is looked at only when nothing was popped.
GetFeaturesPoll(h) ==
  /\ ~remote_aborted
  /\ handler_pc[h] = "poll"
  /\ IF queue_ # <<>>
       THEN /\ handler_frame' =
                 [handler_frame EXCEPT ![h].inference = Head(queue_)]
            /\ queue_' = PopWithTimeout(queue_)
            /\ pop_count' = [pop_count EXCEPT ![Head(queue_).promise] = @ + 1]
            /\ handler_pc' = [handler_pc EXCEPT ![h] = "popped"]
       ELSE /\ cancelled
            /\ handler_frame' =
                 [handler_frame EXCEPT ![h].status = "CANCELLED"]
            /\ handler_pc' = [handler_pc EXCEPT ![h] = "idle"]
            /\ UNCHANGED <<queue_, pop_count>>
  /\ UNCHANGED <<caller_pc, pool_promise, pool_features, pool_returned,
                 batch_id_, pending_map_, responses, cancelled,
                 remote_aborted, put_log, elsewhere>>

\* A BoardFeatures array as the sequence of its floats.
AsSeq(array) == [i \in 1..kNumBoardFeatures |-> array[i - 1]]

\* [](float x) { return x != 0.0f ? 1 : 0; }.
ByteOf(x) == IF x # 0 THEN 1 ELSE 0

\* The std::transform loop over inference.features.
RECURSIVE TransformAll(_)
TransformAll(features) ==
  IF features = <<>> THEN <<>>
  ELSE [i \in 1..kNumBoardFeatures |-> ByteOf(AsSeq(Head(features))[i])]
       \o TransformAll(Tail(features))

\* byte_features sized to the request instead of to the batch size.
ByteFeaturesNoPad(features) == TransformAll(features)

\* std::string byte_features(FLAGS_batch_size * kNumBoardFeatures, 0),
\* overwritten from its beginning with the bytes of the features.
ByteFeatures(features) ==
  LET bytes == TransformAll(features)
  IN [i \in 1..(FLAGS_batch_size * kNumBoardFeatures) |->
        IF i <= Len(bytes) THEN bytes[i] ELSE 0]

\* batch_id_ read without the increment.
NextBatchIdSame(id) == id

\* batch_id_++ of the std::atomic<int32_t>.
NextBatchId(id) == id + 1

\* GetFeatures: the bytes, response->set_batch_id(batch_id_++) and
\* response->set_features.
GetFeaturesBuild(h) ==
  /\ ~remote_aborted
  /\ handler_pc[h] = "popped"
  /\ batch_id_' = NextBatchId(batch_id_)
  /\ handler_frame' = [handler_frame EXCEPT ![h].batch_id = batch_id_]
  /\ responses' =
       Append(responses,
              [batch_id |-> batch_id_,
               features |-> ByteFeatures(handler_frame[h].inference.features),
               request |-> handler_frame[h].inference.promise])
  /\ handler_pc' = [handler_pc EXCEPT ![h] = "emplace"]
  /\ UNCHANGED <<queue_, caller_pc, pool_promise, pool_features,
                 pool_returned, pop_count, pending_map_, cancelled,
                 remote_aborted, put_log, elsewhere>>

\* std::unordered_map::emplace: no effect when the key is there already.
Emplace(map, key, data) ==
  IF key \in DOMAIN map THEN map
  ELSE [k \in DOMAIN map \cup {key} |-> IF k = key THEN data ELSE map[k]]

\* std::unordered_map::erase.
Erase(map, key) == [k \in DOMAIN map \ {key} |-> map[k]]

\* GetFeatures: pending_map_.emplace under pending_mutex_; return OK.
GetFeaturesEmplace(h) ==
  /\ ~remote_aborted
  /\ handler_pc[h] = "emplace"
  /\ pending_map_' =
       Emplace(pending_map_, handler_frame[h].batch_id,
               [num_features |-> Len(handler_frame[h].inference.features),
                promise |-> handler_frame[h].inference.promise])
  /\ handler_frame' = [handler_frame EXCEPT ![h].status = "OK"]
  /\ handler_pc' = [handler_pc EXCEPT ![h] = "idle"]
  /\ UNCHANGED <<queue_, caller_pc, pool_promise, pool_features,
                 pool_returned, pop_count, batch_id_, responses, cancelled,
                 remote_aborted, put_log, elsewhere>>

\* The connection of the worker is cancelled: the worker is gone and makes no
\* further call.
CancelConnection ==
  /\ ~remote_aborted
  /\ ~cancelled
  /\ cancelled' = TRUE
  /\ UNCHANGED <<queue_, caller_pc, pool_promise, pool_features,
                 pool_returned, pop_count, batch_id_, pending_map_,
                 handler_pc, handler_frame, responses, remote_aborted,
                 put_log, elsewhere>>

\* MG_CHECK(request->value().size() == FLAGS_batch_size).
ValueCheck(num_values) == num_values = FLAGS_batch_size

\* MG_CHECK(request->policy().size() == request->value().size() * kNumMoves).
PolicyCheck(num_policy, num_values) == num_policy = num_values * kNumMoves

\* What the worker sends: the flat policy and the values of a batch.
WorkerPolicy(id, num_policy) == [j \in 1..num_policy |-> <<"policy", id, j>>]
WorkerValue(id, num_values) == [k \in 1..num_values |-> <<"value", id, k>>]

\* std::copy_n(value_it, num_features, values.data()).
CopyValues(value, num_features) == SubSeq(value, 1, num_features)

\* std::copy_n(policy_it, kNumMoves * num_features, policies.front().data()).
CopyPolicies(policy, num_features) ==
  [k \in 1..num_features |->
     SubSeq(policy, (k - 1) * kNumMoves + 1, k * kNumMoves)]

\* RemoteDualNet::PutOutputs, called by the worker with a batch id, a number
\* of values and a number of policy entries.
PutOutputs(id, num_values, num_policy) ==
  /\ ~remote_aborted
  /\ ~cancelled
  /\ LET found == id \in DOMAIN pending_map_
         ok == /\ found
               /\ ValueCheck(num_values)
               /\ PolicyCheck(num_policy, num_values)
         request == IF found THEN pending_map_[id].promise ELSE NoRequest
     IN /\ pending_map_' = IF found THEN Erase(pending_map_, id)
                           ELSE pending_map_
        /\ remote_aborted' = ~ok
        /\ pool_promise' =
             IF ok
               THEN LET inference == pending_map_[id]
                        result ==
                          [policies |->
                             CopyPolicies(WorkerPolicy(id, num_policy),
                                          inference.num_features),
                           values |->
                             CopyValues(WorkerValue(id, num_values),
                                        inference.num_features),
                           model |-> "model_path_"]
                    IN [pool_promise EXCEPT
                          ![inference.promise] =
                             [set_count |-> @.set_count + 1,
                              value |-> result]]
               ELSE pool_promise
        /\ put_log' = put_log \cup
             {[batch_id |-> id, num_values |-> num_values,
               num_policy |-> num_policy, pending |-> found, ok |-> ok,
               request |-> request]}
  /\ UNCHANGED <<queue_, caller_pc, pool_features, pool_returned, pop_count,
                 batch_id_, handler_pc, handler_frame, responses, cancelled,
                 elsewhere>>

RemoteNext ==
  \/ \E i \in RemoteItems, n \in 1..FLAGS_batch_size, array \in RemoteArrays :
       RemoteRunMany(i, n, array)
  \/ \E i \in RemoteItems : RemoteFutureGet(i)
  \/ \E h \in Handlers : GetFeaturesCall(h)
  \/ \E h \in Handlers : GetFeaturesPoll(h)
  \/ \E h \in Handlers : GetFeaturesBuild(h)
  \/ \E h \in Handlers : GetFeaturesEmplace(h)
  \/ CancelConnection
  \/ \E id \in 1..(NumClients + 1),
        num_values \in (FLAGS_batch_size - 1)..(FLAGS_batch_size + 1),
        short \in {0, 1} :
       PutOutputs(id, num_values, num_values * kNumMoves - short)

RemoteSpec == RemoteInit /\ [][RemoteNext]_vars

-----------------------------------------------------------------------------
\* BatchingService of cc/dual_net/batching_dual_net.cc: RunMany takes several
\* feature vectors at once and client_counters_ keeps, per call, the number
\* of its features that are in the queue.

\* The feature vectors of one RunMany call, by their sizes.
CallSizes ==
  {<<n>> : n \in 1..(FLAGS_batch_size + 1)}
    \cup {<<n, m>> : n, m \in 1..(FLAGS_batch_size + 1)}

CounterInit ==
  /\ \E batch_size \in 1..MaxBatchSize : BatchingIdleWith(batch_size)
  /\ EncoderIdle
  /\ PoolIdle
  /\ RemoteIdle
  /\ TransposeIdle
  /\ client_counters_ = <<>>
  /\ call_of = [r \in Requests |-> 0]

uncounted == <<encoder, pool, remote, transpose, weak>>

\* BatchingService::RunMany: a feature vector fails
\* MG_CHECK(num_features <= FLAGS_batch_size).
CounterRunManyAbort(c, sizes) ==
  /\ ~aborted
  /\ pc[c] = "idle"
  /\ next_id + Len(sizes) <= MaxRequests
  /\ mutex_ = NoThread
  /\ \E k \in 1..Len(sizes) : ~SizeCheck(sizes[k])
  /\ aborted' = TRUE
  /\ UNCHANGED <<uncounted, counters, engine_inputs, svc, mutex_, pc, frame,
                 promise, inputs_, hist>>

\* The calls numbered so far.
NumCalls == Cardinality({call_of[r] : r \in Requests} \ {0})

\* BatchingService::RunMany, under the lock: for every feature vector the
\* size check, the promise, queue_counter_ += num_features and the push; then
\* client_counters_.push(queue_counter_ - old_queue_counter).
CounterRunMany(c, sizes) ==
  /\ ~aborted
  /\ pc[c] = "idle"
  /\ next_id + Len(sizes) <= MaxRequests
  /\ \A k \in 1..Len(sizes) : SizeCheck(sizes[k])
  /\ mutex_ = NoThread
  /\ mutex_' = c
  /\ LET old_queue_counter == queue_counter_
         ids == [k \in 1..Len(sizes) |-> next_id + k]
     IN /\ next_id' = next_id + Len(sizes)
        /\ submitted' = [r \in Requests |->
                           IF r \in Range(ids) THEN sizes[r - next_id]
                           ELSE submitted[r]]
        /\ call_of' = [r \in Requests |->
                         IF r \in Range(ids) THEN NumCalls + 1
                         ELSE call_of[r]]
        /\ queue_counter_' = queue_counter_ + SumSeq(sizes)
        /\ inference_queue_' =
             inference_queue_ \o
               [k \in 1..Len(sizes) |->
                  [features |-> MakeFeatures(ids[k], sizes[k]),
                   promise |-> ids[k]]]
        /\ client_counters_' =
             Append(client_counters_,
                    (queue_counter_ + SumSeq(sizes)) - old_queue_counter)
        /\ frame' = [frame EXCEPT ![c] =
                       [EmptyFrame EXCEPT !.caller = "RunMany",
                                          !.request = ids]]
  /\ pc' = [pc EXCEPT ![c] = "maybe_run"]
  /\ UNCHANGED <<uncounted, engine_inputs, FLAGS_batch_size, num_clients_,
                 run_counter_, num_runs_, promise, inputs_, aborted, batch_no,
                 batch_of, returned, front_on_empty>>

\* MaybeRunBatches: "Stop if we won't fill a batch yet but more request will
\* come", with the census taken from client_counters_.
CounterStopRule(batch_size) ==
  /\ batch_size < FLAGS_batch_size
  /\ num_clients_ > Len(client_counters_)

\* MaybeRunBatches leaves its loop and the caller releases the lock.
CounterMaybeRunBatchesReturn(c) ==
  /\ ~aborted
  /\ pc[c] = "maybe_run"
  /\ mutex_ = c
  /\ BatchSize = 0 \/ CounterStopRule(BatchSize)
  /\ mutex_' = NoThread
  /\ pc' = [pc EXCEPT ![c] = IF frame[c].caller = "RunMany"
                              THEN "future_get" ELSE "gone"]
  /\ UNCHANGED <<uncounted, counters, engine_inputs, svc, frame, promise,
                 inputs_, aborted, hist>>

\* RunBatch never popping an entry of client_counters_.
RECURSIVE CountDownKeepZero(_, _)
CountDownKeepZero(client_counters, feature_counts) ==
  IF feature_counts = <<>> \/ client_counters = <<>>
  THEN [counters |-> client_counters, front_on_empty |-> FALSE]
  ELSE CountDownKeepZero(
         <<Head(client_counters) - Head(feature_counts)>>
           \o Tail(client_counters),
         Tail(feature_counts))

\* RunBatch: client_counters_.front() -= num_features and the pop of a front
\* that reached 0, for every request moved into the batch.  front() of an
\* empty queue is recorded; its outcome is not defined.  The counters are
\* size_t: a front smaller than num_features wraps around, is never 0 and
\* stays in the queue (it is kept here as the negative difference).
RECURSIVE CountDown(_, _)
CountDown(client_counters, feature_counts) ==
  IF feature_counts = <<>>
  THEN [counters |-> client_counters, front_on_empty |-> FALSE]
  ELSE IF client_counters = <<>>
       THEN [counters |-> client_counters, front_on_empty |-> TRUE]
       ELSE LET front == Head(client_counters) - Head(feature_counts)
            IN CountDown(IF front = 0 THEN Tail(client_counters)
                         ELSE <<front>> \o Tail(client_counters),
                         Tail(feature_counts))

\* MaybeRunBatches calls RunBatch(batch_size): the batch is formed and the
\* counters are updated under the lock, then mutex_.Unlock().
CounterRunBatchForm(c) ==
  /\ ~aborted
  /\ pc[c] = "maybe_run"
  /\ mutex_ = c
  /\ BatchSize # 0
  /\ ~CounterStopRule(BatchSize)
  /\ LET b == RunBatchPop(inference_queue_, BatchSize)
         down == CountDown(client_counters_, b.feature_counts)
     IN /\ inference_queue_' = b.queue
        /\ run_counter_' = run_counter_ + b.popped
        /\ client_counters_' = down.counters
        /\ frame' = [frame EXCEPT ![c].batch = b.features,
                                  ![c].promises = b.promises,
                                  ![c].feature_counts = b.feature_counts,
                                  ![c].result = NoResult,
                                  ![c].policy_it = 0,
                                  ![c].promise_it = 1]
        /\ batch_no' = batch_no + 1
        /\ batch_of' = [r \in Requests |->
                          IF \E i \in 1..Len(b.promises) : b.promises[i] = r
                          THEN batch_no + 1 ELSE batch_of[r]]
        /\ front_on_empty' =
             (front_on_empty \/ b.front_on_empty \/ down.front_on_empty)
  /\ mutex_' = NoThread
  /\ pc' = [pc EXCEPT ![c] = "engine"]
  /\ UNCHANGED <<uncounted, call_of, engine_inputs, FLAGS_batch_size,
                 num_clients_, queue_counter_, num_runs_, promise, inputs_,
                 aborted, next_id, submitted, returned>>

\* RunBatch: auto results = dual_net_->RunMany(std::move(features)), without
\* the lock.
CounterEngineRunMany(c) ==
  /\ ~aborted
  /\ pc[c] = "engine"
  /\ LET feature_vecs == FeatureVecs(frame[c].batch, frame[c].feature_counts)
     IN /\ inputs_' = TfWorkerInputs(Flatten(feature_vecs), inputs_)
        /\ frame' = [frame EXCEPT
                       ![c].result = TfWorkerRunManyVecs(feature_vecs, inputs_),
                       ![c].batch = <<>>]
        /\ engine_inputs' = EngineInputs(engine_inputs, Flatten(feature_vecs))
  /\ pc' = [pc EXCEPT ![c] = "fanout"]
  /\ UNCHANGED <<uncounted, counters, svc, mutex_, promise, aborted, hist>>

\* RunBatch: promises[i].set_value(std::move(results[i])), one iteration.
CounterSetValue(c) ==
  /\ ~aborted
  /\ pc[c] = "fanout"
  /\ frame[c].promise_it <= Len(frame[c].result)
  /\ LET i == frame[c].promise_it
         p == frame[c].promises[i]
     IN promise' = [promise EXCEPT
                      ![p] = [set_count |-> @.set_count + 1,
                              value |-> IF @.set_count = 0
                                        THEN frame[c].result[i]
                                        ELSE @.value]]
  /\ frame' = [frame EXCEPT ![c].promise_it = @ + 1]
  /\ UNCHANGED <<uncounted, counters, engine_inputs, svc, mutex_, pc, inputs_,
                 aborted, hist>>

\* RunMany: results.push_back(future.get()) for every future of the call.
CounterFutureGet(c) ==
  /\ ~aborted
  /\ pc[c] = "future_get"
  /\ \A r \in Range(frame[c].request) : promise[r].set_count > 0
  /\ returned' = [r \in Requests |->
                    IF r \in Range(frame[c].request) THEN promise[r].value
                    ELSE returned[r]]
  /\ frame' = [frame EXCEPT ![c] = EmptyFrame]
  /\ pc' = [pc EXCEPT ![c] = "idle"]
  /\ UNCHANGED <<uncounted, counters, engine_inputs, svc, mutex_, promise,
                 inputs_, aborted, next_id, submitted, batch_no, batch_of,
                 front_on_empty>>

CounterNext ==
  \/ \E c \in Clients : IncrementClientCount(c)
  \/ \E c \in Clients : DecrementClientCount(c)
  \/ \E c \in Clients, sizes \in CallSizes : CounterRunManyAbort(c, sizes)
  \/ \E c \in Clients, sizes \in CallSizes : CounterRunMany(c, sizes)
  \/ \E c \in Clients : CounterMaybeRunBatchesReturn(c)
  \/ \E c \in Clients : CounterRunBatchForm(c)
  \/ \E c \in Clients : CounterEngineRunMany(c)
  \/ \E c \in Clients : CounterSetValue(c)
  \/ \E c \in Clients : Relock(c)
  \/ \E c \in Clients : CounterFutureGet(c)

CounterSpec == CounterInit /\ [][CounterNext]_vars

-----------------------------------------------------------------------------
\* TrtWorker::TransposeBoardFeatures: one BoardFeatures array is transposed in
\* place, from the layout SetFeatures writes to the layout of the planes.

\* A BoardFeatures array whose floats are all different.
Numbered == [i \in 0..(kNumBoardFeatures - 1) |-> i + 3]

\* The arrays handed to TransposeBoardFeatures: what SetFeatures writes for
\* the histories it accepts, and the array of different floats.
TransposeInputs ==
  {SetFeatures(positions, color, NewBoardFeatures) :
     positions \in {h \in Histories : h # <<>> /\ HistoryCheck(h)},
     color \in {"kBlack", "kWhite"}}
    \cup {Numbered}

TransposeInit ==
  /\ BatchingIdle
  /\ PoolIdle
  /\ RemoteIdle
  /\ CountersIdle
  /\ history = <<>>
  /\ to_play = "kBlack"
  /\ board_features \in TransposeInputs
  /\ encoder_pc = "returned"
  /\ num_calls = 0
  /\ first_features = <<>>
  /\ visited = {}
  /\ transpose_i = 0
  /\ transpose_column = 0
  /\ transpose_row = 0
  /\ transpose_pc = "none"
  /\ original = <<>>
  /\ moved = <<>>

\* TransposeBoardFeatures is entered: data, the empty bitset, i = 0 and the
\* loop variables.
TransposeCall ==
  /\ transpose_pc = "none"
  /\ visited' = {}
  /\ transpose_i' = 0
  /\ transpose_column' = 0
  /\ transpose_row' = 0
  /\ original' = board_features
  /\ moved' = [i \in DOMAIN board_features |-> 0]
  /\ transpose_pc' = "loop"
  /\ UNCHANGED <<history, to_play, board_features, encoder_pc, num_calls,
                 first_features, pool, remote, counters, batching>>

\* The index of the other direction, from the planes back to the points.
TransposeIndexToPoints(i) ==
  ((i % NumPoints) * kNumStoneFeatures) + (i \div NumPoints)

\* "Convert index from row-major to column-major":
\* i % kNumStoneFeatures * kN * kN + i / kNumStoneFeatures.
TransposeIndex(i) ==
  ((i % kNumStoneFeatures) * NumPoints) + (i \div kNumStoneFeatures)

\* data[i]; an index outside the array reads whatever lies there.
DataAt(data, i) == IF i \in DOMAIN data THEN data[i] ELSE Indeterminate

\* while (!visited[i]) { visited.set(i); i = ...; std::swap(value, data[i]); }
\* on the locals data, visited, i and value; writes counts the assignments
\* to every element of data.
RECURSIVE TransposeWhile(_)
TransposeWhile(local) ==
  IF local.i \in local.visited \/ local.i \notin DOMAIN local.data
  THEN local
  ELSE LET j == TransposeIndex(local.i)
       IN TransposeWhile(
            [data |-> IF j \in DOMAIN local.data
                      THEN [local.data EXCEPT ![j] = local.held]
                      ELSE local.data,
             visited |-> local.visited \cup {local.i},
             i |-> j,
             held |-> DataAt(local.data, j),
             writes |-> IF j \in DOMAIN local.writes
                        THEN [local.writes EXCEPT ![j] = @ + 1]
                        ELSE local.writes])

\* One iteration of the two for loops: float value = data[i], the while loop
\* and ++i; then ++row, and ++column after the last row.
TransposeStep ==
  /\ transpose_pc = "loop"
  /\ LET local == TransposeWhile(
                    [data |-> board_features,
                     visited |-> visited,
                     i |-> transpose_i,
                     held |-> DataAt(board_features, transpose_i),
                     writes |-> moved])
         last_row == transpose_row + 1 = NumPoints
         last == last_row /\ transpose_column + 1 = kNumStoneFeatures
     IN /\ board_features' = local.data
        /\ visited' = local.visited
        /\ moved' = local.writes
        /\ transpose_i' = local.i + 1
        /\ transpose_row' = IF last_row THEN 0 ELSE transpose_row + 1
        /\ transpose_column' =
             IF last_row THEN transpose_column + 1 ELSE transpose_column
        /\ transpose_pc' = IF last THEN "done" ELSE "loop"
  /\ UNCHANGED <<history, to_play, encoder_pc, num_calls, first_features,
                 original, pool, remote, counters, batching>>

TransposeNext ==
  \/ TransposeCall
  \/ TransposeStep

TransposeSpec == TransposeInit /\ [][TransposeNext]_vars

-----------------------------------------------------------------------------
\* Properties of the feature encoder.

BoardPoints == 0..(NumPoints - 1)

\* The value of plane k of point p in the caller's array.
Plane(k, p) == board_features[p * kNumStoneFeatures + k]

\* The colour that is not to play.
Opponent == CHOOSE color \in {"kBlack", "kWhite"} : color # to_play

\* C24: after SetFeatures has returned, for every ply j of the history and
\* every point p, plane 2j of p holds 1 exactly when history[j] has a stone of
\* the side to play at p and plane 2j+1 holds 1 exactly when it has a stone of
\* the other colour there; both hold 0 otherwise.  Plane k of point p is the
\* float at index p * kNumStoneFeatures + k.
C24_StonePlanes ==
  encoder_pc = "returned" =>
    \A j \in 0..(Len(history) - 1) : \A p \in BoardPoints :
      /\ Plane(2 * j, p) \in {0, 1}
      /\ Plane(2 * j + 1, p) \in {0, 1}
      /\ Plane(2 * j, p) = 1 <=> history[j + 1][p] = to_play
      /\ Plane(2 * j + 1, p) = 1 <=> history[j + 1][p] = Opponent

\* C24 witness: SetFeatures has returned for a full history whose positions
\* differ and hold a stone of the side to play, a stone of the other side and
\* an empty point.
C24_Witness ==
  /\ encoder_pc = "returned"
  /\ Len(history) = kMoveHistory
  /\ history[1] # history[2]
  /\ \E p, q \in BoardPoints :
       /\ history[1][p] = to_play
       /\ history[1][q] = Opponent
       /\ history[2][q] = "kEmpty"

\* C25: after SetFeatures has returned for a history shorter than
\* kMoveHistory, planes 2j and 2j+1 of every point hold 0 for every ply j from
\* history.size() up to kMoveHistory - 1; for a history of one position these
\* are the planes 2 .. 2 * kMoveHistory - 1.
C25_ShortHistoryPadded ==
  encoder_pc = "returned" =>
    /\ \A j \in Len(history)..(kMoveHistory - 1) : \A p \in BoardPoints :
         Plane(2 * j, p) = 0 /\ Plane(2 * j + 1, p) = 0
    /\ Len(history) = 1 =>
         \A k \in 2..(2 * kMoveHistory - 1) : \A p \in BoardPoints :
           Plane(k, p) = 0

\* C25 witness: SetFeatures has returned for a history of one position that
\* holds stones of both colours.
C25_Witness ==
  /\ encoder_pc = "returned"
  /\ Len(history) = 1
  /\ Len(history) < kMoveHistory
  /\ \E p, q \in BoardPoints :
       history[1][p] = "kBlack" /\ history[1][q] = "kWhite"

\* C26: after SetFeatures has returned, plane kPlayerFeature of every point
\* holds 1 when black is to play and 0 when white is, whatever the history.
C26_PlayerPlane ==
  encoder_pc = "returned" =>
    \A p \in BoardPoints :
      Plane(kPlayerFeature, p) = (IF to_play = "kBlack" THEN 1 ELSE 0)

\* C26 witness: SetFeatures has returned with white to play for a history
\* whose current position holds black stones only.
C26_Witness ==
  /\ encoder_pc = "returned"
  /\ to_play = "kWhite"
  /\ history # <<>>
  /\ \A p \in BoardPoints : history[1][p] = "kBlack"

\* C27: SetFeatures is idempotent.  Whatever the array held before a call,
\* after the call every one of its kNumBoardFeatures floats is 0 or 1, and
\* every later call with the same history and colour leaves the array as the
\* first call left it.
C27_Idempotent ==
  encoder_pc = "returned" =>
    /\ DOMAIN board_features = 0..(kNumBoardFeatures - 1)
    /\ \A i \in DOMAIN board_features : board_features[i] \in {0, 1}
    /\ board_features = first_features

\* C27 witness: a second call has returned, for a history that holds a stone.
C27_Witness ==
  /\ encoder_pc = "returned"
  /\ num_calls = 2
  /\ \E j \in 1..Len(history) : \E p \in BoardPoints :
       history[j][p] # "kEmpty"

\* C28: a SetFeatures call with an empty history aborts and produces no
\* feature array.
C28_EmptyHistoryAborts ==
  (history = <<>> /\ num_calls > 0) => encoder_pc = "aborted"

\* C29: a SetFeatures call with a history longer than kMoveHistory aborts,
\* and aborts before it has written any float of the array; no other call
\* aborts.
C29_LongHistoryAborts ==
  /\ (Len(history) > kMoveHistory /\ num_calls > 0) =>
       encoder_pc = "aborted"
  /\ encoder_pc = "aborted" =>
       /\ Len(history) > kMoveHistory
       /\ board_features = NewBoardFeatures

\* C29 witness: a call with kMoveHistory + 1 positions has aborted.
C29_Witness ==
  /\ encoder_pc = "aborted"
  /\ Len(history) = kMoveHistory + 1
  /\ num_calls = 1

-----------------------------------------------------------------------------
\* Properties of the worker threads.

\* C30: shutdown drains.  Once every worker thread has exited, no work item
\* is left in queue_ and the promise of every caller blocked in RunMany has
\* its value.
C30_ShutdownDrains ==
  (\A w \in DOMAIN worker_pc : worker_pc[w] = "exited") =>
    /\ queue_ = <<>>
    /\ \A i \in DOMAIN caller_pc :
         caller_pc[i] = "blocked" => i \in fulfilled

\* A worker whose functor has returned has freed its context (TrtWorker) or
\* session (TfWorker) and its pinned buffers.
ContextFreed(w) == worker_pc[w] = "exited"

\* C31 as claimed: contexts, like the engines and the runtime, are destroyed
\* only after the destructor has waited for every worker thread.
C31_ContextsFreedAfterJoin ==
  \A w \in DOMAIN worker_pc :
    ContextFreed(w) => \A v \in DOMAIN worker_pc : worker_pc[v] = "exited"

\* C31: disposal order.  running_ is false from the moment the destructor has
\* started; the engines and the runtime are destroyed only when every worker
\* thread has exited; a worker completes at most one PopWithTimeout after
\* running_ became false; no worker pops or executes a batch once the engines
\* are destroyed.  (Each worker frees its own context when it leaves its
\* loop, possibly while other workers still run.)
C31_EnginesDestroyedAfterJoin ==
  /\ running_ <=> engine_pc \in {"none", "alive"}
  /\ engine_pc = "destroyed" =>
       \A w \in DOMAIN worker_pc : worker_pc[w] = "exited"
  /\ \A w \in DOMAIN late_pops : late_pops[w] <= 1
  /\ \A w \in DOMAIN worker_pc :
       worker_pc[w] \in {"pop", "run"} =>
         /\ ~ContextFreed(w)
         /\ engine_pc # "destroyed"

\* C31 witness: the engines are destroyed; a worker had popped and executed a
\* work item after running_ became false.
C31_Witness ==
  /\ engine_pc = "destroyed"
  /\ \E w \in DOMAIN late_pops : late_pops[w] = 1
  /\ fulfilled # {}

\* The Result the network computes from the features of work item i.
OwnResult(i) ==
  [policies |-> [k \in 1..Len(pool_features[i]) |->
                   Policy(pool_features[i][k])],
   values |-> [k \in 1..Len(pool_features[i]) |-> Value(pool_features[i][k])],
   model |-> "model_path_"]

\* C36: a work item is popped by at most one worker and its promise is set at
\* most once; a promise that is set was set by the worker that popped the
\* item, with the outputs computed from the item's own features; a RunMany
\* call that has returned returns that Result; an item is in the queue at
\* most once and only until it is popped.
C36_WorkItemRunOnce ==
  /\ \A i \in DOMAIN pop_count :
       /\ pop_count[i] <= 1
       /\ pool_promise[i].set_count <= 1
       /\ pool_promise[i].set_count = 1 =>
            /\ pop_count[i] = 1
            /\ pool_promise[i].value = OwnResult(i)
       /\ caller_pc[i] = "returned" =>
            /\ pool_promise[i].set_count = 1
            /\ pool_returned[i] = OwnResult(i)
       /\ Cardinality({k \in 1..Len(queue_) : queue_[k].promise = i})
            = (IF caller_pc[i] = "blocked" /\ pop_count[i] = 0 THEN 1 ELSE 0)
  /\ \A w, v \in DOMAIN worker_pc :
       (w # v /\ worker_pc[w] = "run" /\ worker_pc[v] = "run") =>
         worker_item[w].promise # worker_item[v].promise

\* C36 witness: every caller has returned, with requests of different sizes,
\* while both workers were serving the queue.
C36_Witness ==
  /\ \A i \in DOMAIN caller_pc : caller_pc[i] = "returned"
  /\ \E i, k \in DOMAIN pool_features :
       Len(pool_features[i]) # Len(pool_features[k])
  /\ \A w \in DOMAIN worker_inputs_ : worker_inputs_[w][1] # Uninit

-----------------------------------------------------------------------------
\* Properties of the remote engine.

\* The position of the response that carries batch id id.
ResponseOf(id) ==
  CHOOSE a \in 1..Len(responses) : responses[a].batch_id = id

\* C32: a batch that is pending when the connection is cancelled and no
\* GetFeatures call is running any more makes the process abort, so its caller
\* is not left blocked; a GetFeatures call that returned CANCELLED has popped
\* no request.
C32_LostBatchAborts ==
  /\ (/\ cancelled
      /\ DOMAIN pending_map_ # {}
      /\ \A h \in DOMAIN handler_pc : handler_pc[h] = "idle")
       => remote_aborted
  /\ \A h \in DOMAIN handler_frame :
       handler_frame[h].status = "CANCELLED" =>
         handler_frame[h].inference = NoInference

\* The bytes of the k-th feature array of a response.
SentArray(features, k) ==
  SubSeq(features, (k - 1) * kNumBoardFeatures + 1, k * kNumBoardFeatures)

\* C33: every response holds exactly FLAGS_batch_size feature arrays, the
\* quantised features of the request followed by zero arrays; PutOutputs
\* fulfils a pending batch exactly when it is given FLAGS_batch_size values and
\* FLAGS_batch_size * kNumMoves policy entries and aborts otherwise; the
\* Result given to the caller holds the outputs of rows 1..n of the batch and
\* nothing of the rows n+1..FLAGS_batch_size.
C33_PaddedOnTheWire ==
  /\ \A a \in 1..Len(responses) :
       LET sent == responses[a].features
           own == pool_features[responses[a].request]
       IN /\ Len(sent) = FLAGS_batch_size * kNumBoardFeatures
          /\ \A k \in 1..FLAGS_batch_size :
               SentArray(sent, k) =
                 IF k <= Len(own)
                   THEN [j \in 1..kNumBoardFeatures |->
                           IF own[k][j - 1] = 0 THEN 0 ELSE 1]
                   ELSE [j \in 1..kNumBoardFeatures |-> 0]
  /\ \A e \in put_log :
       /\ e.ok <=> /\ e.pending
                   /\ e.num_values = FLAGS_batch_size
                   /\ e.num_policy = FLAGS_batch_size * kNumMoves
       /\ ~e.ok => remote_aborted
  /\ \A i \in DOMAIN pool_promise :
       pool_promise[i].set_count > 0 =>
         LET result == pool_promise[i].value
             n == Len(pool_features[i])
         IN /\ Len(result.values) = n
            /\ Len(result.policies) = n
            /\ \E a \in 1..Len(responses) :
                 /\ responses[a].request = i
                 /\ \A k \in 1..n :
                      /\ result.values[k] =
                           <<"value", responses[a].batch_id, k>>
                      /\ result.policies[k] =
                           [m \in 1..kNumMoves |->
                              <<"policy", responses[a].batch_id,
                                (k - 1) * kNumMoves + m>>]

\* C33 witness: a request of fewer features than the batch size, one of them
\* written by SetFeatures, was sent padded and its caller has returned.
C33_Witness ==
  \E i \in DOMAIN caller_pc :
    /\ caller_pc[i] = "returned"
    /\ Len(pool_features[i]) < FLAGS_batch_size
    /\ pool_features[i][1] # NewBoardFeatures
    /\ Len(pool_returned[i].values) = Len(pool_features[i])

\* C39: the batch ids of the responses are pairwise different; a pending
\* entry belongs to the request that was sent under its id; a PutOutputs that
\* succeeded has set the promise of the request sent under its id, once, and
\* the entry is gone; a PutOutputs whose id was not pending has aborted the
\* process.
C39_BatchMatching ==
  /\ \A a, b \in 1..Len(responses) :
       a # b => responses[a].batch_id # responses[b].batch_id
  /\ \A id \in DOMAIN pending_map_ :
       /\ \E a \in 1..Len(responses) : responses[a].batch_id = id
       /\ pending_map_[id].promise = responses[ResponseOf(id)].request
       /\ pending_map_[id].num_features =
            Len(pool_features[pending_map_[id].promise])
       /\ pool_promise[pending_map_[id].promise].set_count = 0
  /\ \A e \in put_log :
       /\ e.ok =>
            /\ e.batch_id \notin DOMAIN pending_map_
            /\ \E a \in 1..Len(responses) : responses[a].batch_id = e.batch_id
            /\ e.request = responses[ResponseOf(e.batch_id)].request
            /\ pool_promise[e.request].set_count = 1
       /\ ~e.pending => /\ ~e.ok
                        /\ remote_aborted
  /\ \A i \in DOMAIN pool_promise :
       /\ pool_promise[i].set_count <= 1
       /\ pool_promise[i].set_count = 1 =>
            Cardinality({e \in put_log : e.ok /\ e.request = i}) = 1
  /\ \A i \in DOMAIN pop_count :
       (pop_count[i] = 1 /\ pool_promise[i].set_count = 0
          /\ ~remote_aborted) =>
         \/ \E h \in DOMAIN handler_pc :
              /\ handler_pc[h] \in {"popped", "emplace"}
              /\ handler_frame[h].inference.promise = i
         \/ \E id \in DOMAIN pending_map_ : pending_map_[id].promise = i

\* C39 witness: two GetFeatures calls ran concurrently and their responses
\* carry different ids; the first batch was answered, and a second PutOutputs
\* with the same id has aborted the process.
C39_Witness ==
  /\ Len(responses) = 2
  /\ \E e, f \in put_log :
       /\ e.ok
       /\ ~f.pending
       /\ f.batch_id = e.batch_id
  /\ remote_aborted

-----------------------------------------------------------------------------
\* The life of a request in the batching service.

InQueue(r) ==
  \E i \in 1..Len(inference_queue_) : inference_queue_[i].promise = r

\* 0: not made yet, 1: Created, 2: Queued, 3: Batched, 4: Completed,
\* 5: Consumed.
ReqState(r) ==
  CASE r > next_id -> 0
    [] returned[r] # NoResult -> 5
    [] promise[r].set_count > 0 -> 4
    [] batch_of[r] > 0 -> 3
    [] InQueue(r) -> 2
    [] OTHER -> 1

\* What holds of a request in each of its states.
ReqStateConsistent(r) ==
  /\ ReqState(r) = 0 =>
       /\ ~InQueue(r)
       /\ batch_of[r] = 0
       /\ promise[r].set_count = 0
       /\ returned[r] = NoResult
  /\ ReqState(r) = 1 =>
       \E c \in Clients : pc[c] = "push" /\ frame[c].request = r
  /\ InQueue(r) =>
       /\ batch_of[r] = 0
       /\ promise[r].set_count = 0
       /\ returned[r] = NoResult
       /\ \A c \in Clients : r \notin Range(frame[c].promises)
  /\ ReqState(r) = 3 =>
       \E c \in Clients :
         /\ pc[c] \in {"engine", "fanout"}
         /\ r \in Range(frame[c].promises)
  /\ promise[r].set_count > 0 => batch_of[r] > 0
  /\ returned[r] # NoResult => promise[r].set_count > 0

\* A step of a request: it stays where it is or moves to the next state;
\* from Queued to Batched by the thread that holds the mutex inside
\* MaybeRunBatches, from Batched to Completed by the thread that runs the
\* batch.
ReqStep(r) ==
  /\ ReqState(r)' \in {ReqState(r), ReqState(r) + 1}
  /\ (ReqState(r) = 2 /\ ReqState(r)' = 3) =>
       \E c \in Clients :
         /\ mutex_ = c
         /\ pc[c] = "maybe_run"
         /\ r \in Range(frame'[c].promises)
  /\ (ReqState(r) = 3 /\ ReqState(r)' = 4) =>
       \E c \in Clients :
         /\ pc[c] = "fanout"
         /\ frame[c].promise_it <= Len(frame[c].promises)
         /\ frame[c].promises[frame[c].promise_it] = r
         /\ frame'[c].promise_it = frame[c].promise_it + 1

\* C34: every request goes through Created, Queued, Batched, Completed and
\* Consumed in this order, one state at a time and never backwards; only the
\* thread that runs the scheduler loop moves it from Queued to Batched (under
\* the mutex) and from Batched to Completed; a request that is Batched or
\* later is not in inference_queue_.
C34_RequestLifecycle ==
  /\ [](\A r \in Requests : ReqStateConsistent(r))
  /\ [][\A r \in Requests : ReqStep(r)]_vars

\* C34 witness: one request is Consumed, another Batched with its batch at
\* the engine, a third Queued.
C34_Witness ==
  \E r, q, t \in Requests :
    /\ ReqState(r) = 5
    /\ ReqState(q) = 3
    /\ ReqState(t) = 2

-----------------------------------------------------------------------------
\* Properties of the service with client_counters_.

\* The RunMany calls that have a request in the queue.
PendingCalls ==
  {call_of[inference_queue_[i].promise] : i \in 1..Len(inference_queue_)}

\* The k-th of them in the order of the calls.
PendingCall(k) ==
  CHOOSE x \in PendingCalls :
    Cardinality({y \in PendingCalls : y < x}) = k - 1

\* The number of features of a call that are in the queue, and the number it
\* submitted.
QueuedOfCall(call) ==
  SumSeq([i \in 1..Len(inference_queue_) |->
            IF call_of[inference_queue_[i].promise] = call
            THEN Len(inference_queue_[i].features) ELSE 0])
SubmittedByCall(call) ==
  SumSeq([r \in 1..MaxRequests |->
            IF call_of[r] = call THEN submitted[r] ELSE 0])

FormedInOrder(c) ==
  LET taken == Len(frame'[c].promises)
      room == BatchSize - Len(frame'[c].batch)
  IN /\ taken <= Len(inference_queue_)
     /\ \A k \in 1..taken :
          frame'[c].promises[k] = inference_queue_[k].promise
     /\ inference_queue_' =
          SubSeq(inference_queue_, taken + 1, Len(inference_queue_))
     /\ (room > 0 /\ inference_queue_' # <<>>) =>
          Len(Head(inference_queue_').features) > room

\* C35: head-of-line blocking.  A batch is made of the requests at the front
\* of the queue, in their order; its formation stops at the first request
\* that does not fit the room left, and no request behind that one is taken.
C35_HeadOfLineBlocking ==
  [][\A c \in Clients :
       (pc[c] = "maybe_run" /\ pc'[c] = "engine") => FormedInOrder(c)]_vars

\* C35 witness: a batch with room left is at the engine; the request at the
\* head of the queue did not fit that room and the request behind it, which
\* would have fitted, was left in the queue.
C35_Witness ==
  \E c \in Clients :
    /\ pc[c] = "engine"
    /\ Len(inference_queue_) >= 2
    /\ Len(inference_queue_[1].features)
         > FLAGS_batch_size - Len(frame[c].batch)
    /\ Len(inference_queue_[2].features)
         <= FLAGS_batch_size - Len(frame[c].batch)

\* C37: every RunBatch call takes at least one request.  When MaybeRunBatches
\* is about to call RunBatch(batch_size) the queue is not empty and its head
\* has at most batch_size features; no batch was formed without a request
\* (every batch number is the batch of some request), and front() was never
\* read of an empty queue.
C37_EveryBatchTakesARequest ==
  /\ \A c \in DOMAIN pc :
       (/\ pc[c] = "maybe_run"
        /\ mutex_ = c
        /\ BatchSize # 0
        /\ ~StopRule(BatchSize)) =>
         /\ inference_queue_ # <<>>
         /\ Len(Head(inference_queue_).features) <= BatchSize
  /\ \A k \in 1..batch_no : \E r \in Requests : batch_of[r] = k
  /\ ~front_on_empty

-----------------------------------------------------------------------------
\* Properties of TransposeBoardFeatures.

\* The planes and the points of a board.
Planes == 0..(kNumStoneFeatures - 1)
Points == 0..(NumPoints - 1)

\* C40: when TransposeBoardFeatures returns, the element at plane * kN * kN +
\* point is the element that was at point * kNumStoneFeatures + plane before
\* the call, for every point and plane; every element was written exactly
\* once; the loops have run kNumBoardFeatures times, each one from the index
\* that follows the index of the one before.  No element is written twice
\* on the way.
C40_TransposedInPlace ==
  /\ transpose_pc = "done" =>
       /\ \A p \in Points, c \in Planes :
            board_features[c * NumPoints + p]
              = original[p * kNumStoneFeatures + c]
       /\ \A i \in DOMAIN moved : moved[i] = 1
       /\ visited = DOMAIN board_features
       /\ transpose_i = kNumBoardFeatures
       /\ transpose_column = kNumStoneFeatures
  /\ transpose_pc = "loop" =>
       /\ transpose_i = transpose_column * NumPoints + transpose_row
       /\ transpose_i < kNumBoardFeatures
       /\ \A i \in DOMAIN moved : moved[i] = (IF i \in visited THEN 1 ELSE 0)

\* C40 witness: the call has returned; the array was the one of different
\* floats, so that every element is told from every other, and it is not
\* what it was before.
C40_Witness ==
  /\ transpose_pc = "done"
  /\ original = Numbered
  /\ board_features # original

====
